---- MODULE Spec2Model ----
(***************************************************************************)
(* A model of the image compositing and text-effects pipeline of           *)
(* ProCaptions-backend: CompositionService (src/src/services/              *)
(* composition.py) as it is driven by the routes of                        *)
(* src/src/routes/image_routes.py.                                         *)
(*                                                                         *)
(* One call of one service operation is followed from its arguments to its *)
(* result.  Images live in a heap of references, so that a copy and an     *)
(* alias are different things.  An image is its size, its decoded pixels   *)
(* (row-major RGBA) and the draw operations applied to it since: glyph     *)
(* rasterisation is the font engine's business, so a draw.text call is     *)
(* recorded as an operation (kind, origin, fill) and not as pixels, while  *)
(* Image.paste is computed pixel by pixel with Pillow's integer blend.     *)
(***************************************************************************)
EXTENDS Integers, Sequences, FiniteSets, TLC

VARIABLES
    pc,         \* position of the call in the operation's body
    req,        \* the arguments of the call
    heap,       \* image reference -> image
    canvasRef,  \* the reference bound to `canvas` / `final_image`
    fgRef,      \* the reference bound to `foreground`
    metrics,    \* text_width, text_height and the adjusted position
    layerIdx,   \* index of the next layer of add_multiple_text_layers
    template,   \* the locals of create_template
    files,      \* the PNG files saved under uploads/processed
    fault,      \* what went wrong in the last _apply_text_effects call
    fetches,    \* the URLs requested over the network, in order
    uploads,    \* the paths handed to the object store and accepted by it
    result,     \* what the call returned or raised
    clock,      \* time.time(): whole seconds for file names, ticks for the cleanup
    calls,      \* the service calls in flight together: call -> its locals
    files_to_cleanup,  \* ImageCleanupService.files_to_cleanup: path -> expiry
    on_disk,    \* the paths present in the upload directories
    task,       \* the state of the asyncio task running cleanup_task
    files_to_remove    \* cleanup_task's list of the same name, after its last sweep

vars == <<pc, req, heap, canvasRef, fgRef, metrics, layerIdx, template, files, fault, fetches, uploads, result,
          clock, calls, files_to_cleanup, on_disk, task, files_to_remove>>

----------------------------------------------------------------------------
(* Bounds of the model *)

MaxAnchor == 1        \* anchors range over (0..MaxAnchor)^2, plus (100,100)
MaxTextW == 1         \* measured glyph box widths 0..MaxTextW, plus 200
MaxTextH == 4         \* measured glyph box heights 0..MaxTextH, plus 50
MaxBearing == 1       \* offset of the glyph box from the draw origin
MaxLayers == 2        \* length of the text_layers list
MaxEffects == 2       \* number of keys of an effects mapping
MaxOutlineWidth == 1  \* outline width settings 0..MaxOutlineWidth
MaxDepthLayers == 2   \* 3d_depth layers settings 1..MaxDepthLayers
MaxImgW == 2          \* decoded image widths 1..MaxImgW
MaxImgH == 1          \* decoded image heights 1..MaxImgH
MaxFailAt == 1        \* draw calls a failing effect step had completed: 0..MaxFailAt
MaxHexLen == 8        \* characters of a colour string after its leading '#'s

----------------------------------------------------------------------------
(* Small helpers *)

Min(a, b) == IF a < b THEN a ELSE b
Max(a, b) == IF a > b THEN a ELSE b

\* dict.get(key, default) and the truth value of a dict
Get(d, k, dflt) == IF k \in d.keys THEN d.val[k] ELSE dflt
Truthy(d) == d.keys # {}

----------------------------------------------------------------------------
(* Colours and pixels *)

White == "#FFFFFF"
DefaultInk == "ink"            \* ImageDraw's default ink, used when fill is None

Transparent == <<0, 0, 0, 0>>
OpaqueRed == <<255, 0, 0, 255>>
HalfBlue == <<0, 0, 255, 128>>
OpaqueGreen == <<0, 200, 0, 255>>
Palette == <<Transparent, OpaqueRed, HalfBlue, OpaqueGreen>>

\* The k-th decoded test image of a size: pixel i is Palette[(i + k) mod 4].
PatternPixels(size, k) ==
    [i \in 1..(size[1] * size[2]) |-> Palette[((i - 1 + k) % Len(Palette)) + 1]]

NewImage(size, px) == [size |-> size, px |-> px, ops |-> <<>>]
NoImage == [size |-> <<0, 0>>, px |-> <<>>, ops |-> <<>>]

ImageSizes == (1..MaxImgW) \X (1..MaxImgH)
DecodedImages == {NewImage(s, PatternPixels(s, k)) : s \in ImageSizes, k \in 0..(Len(Palette) - 1)}

Refs == {"background", "canvas", "foreground", "resized", "final"}

----------------------------------------------------------------------------
(* Text measurement and position resolution *)

\* draw.textbbox((0, 0), text, font): the glyph box of a text under a font.
BBoxes ==
    {<<x0, y0, x0 + w, y0 + h>> :
        x0 \in 0..MaxBearing, y0 \in 0..MaxBearing, w \in 0..MaxTextW, h \in 0..MaxTextH}
    \cup {<<0, 0, 200, 50>>}

TextWidth(bbox) == bbox[3] - bbox[1]
TextHeight(bbox) == bbox[4] - bbox[2]

\* int(text_height * factor) for factor = num/den and text_height >= 0
VerticalAdjustment(text_height, num, den) == (text_height * num) \div den

AdjustedX(pos_x, text_width) == pos_x - text_width \div 2
AdjustedY(pos_y, text_height, num, den) ==
    pos_y - text_height \div 2 - VerticalAdjustment(text_height, num, den)

\* add_text: vertical_adjustment_factor = 0.375 = 3/8
AddTextPositionLegacy(pos_x, pos_y, tw, th) == <<AdjustedX(pos_x, tw), AdjustedY(pos_y, th, 1, 10)>>
AddTextPosition(pos_x, pos_y, tw, th) == <<AdjustedX(pos_x, tw), AdjustedY(pos_y, th, 3, 8)>>

\* add_multiple_text_layers: vertical_adjustment_factor = 0.10 = 1/10
LayerPosition(pos_x, pos_y, tw, th) == <<AdjustedX(pos_x, tw), AdjustedY(pos_y, th, 1, 10)>>

\* position dicts: int(position.get('x', 10)), int(position.get('y', 10))
PosDict(keys, x, y) == [keys |-> keys, val |-> [x |-> x, y |-> y]]
Anchors == ((0..MaxAnchor) \X (0..MaxAnchor)) \cup {<<100, 100>>}
Positions ==
    {PosDict({"x", "y"}, a[1], a[2]) : a \in Anchors}
    \cup {PosDict({"x"}, 100, 0), PosDict({}, 0, 0)}
DefaultCoord == 10

----------------------------------------------------------------------------
(* Effects mappings *)

EffectKinds == {"3d_depth", "glow", "shadow", "outline", "text_gradient", "background_gradient"}

\* A settings dict: the keys it holds and, for those keys, their values.
SettingVals(layers, width, use_mask) ==
    [layers |-> layers, width |-> width, use_mask |-> use_mask, color |-> "#112233",
     radius |-> 0, opacity |-> 0, angle |-> 0, distance |-> 0]
Settings(keys, layers, width, use_mask) ==
    [keys |-> keys, val |-> SettingVals(layers, width, use_mask)]
EmptyDict == Settings({}, 0, 0, FALSE)

\* {"angle": angle, "distance": distance}
DepthSettings(angle, distance) ==
    [keys |-> {"angle", "distance"},
     val |-> [SettingVals(0, 0, FALSE) EXCEPT !.angle = angle, !.distance = distance]]

\* {"radius": radius, "opacity": opacity}; opacities are in hundredths.
GlowSettings(radius, opacity) ==
    [keys |-> {"radius", "opacity"},
     val |-> [SettingVals(0, 0, FALSE) EXCEPT !.radius = radius, !.opacity = opacity]]

SettingsFor(kind) ==
    {EmptyDict} \cup
    CASE kind = "3d_depth" -> {Settings({"layers"}, n, 0, FALSE) : n \in 1..MaxDepthLayers}
                                 \cup {DepthSettings(90, 3)}
      [] kind = "outline" -> {Settings({"width"}, 0, n, FALSE) : n \in 0..MaxOutlineWidth}
                                \cup {Settings({"color"}, 0, 0, FALSE)}
      [] kind = "text_gradient" -> {Settings({"use_mask"}, 0, 0, b) : b \in BOOLEAN}
      [] kind = "glow" -> {Settings({"color"}, 0, 0, FALSE), GlowSettings(3, 70), GlowSettings(25, 150)}
      [] OTHER -> {Settings({"color"}, 0, 0, FALSE)}

\* An effects mapping; None and {} behave alike and are the mapping without keys.
EffectsOf(ks, d, g, s, o, t, b) ==
    [keys |-> ks,
     val |-> [k \in EffectKinds |->
                CASE k = "3d_depth" -> d [] k = "glow" -> g [] k = "shadow" -> s
                  [] k = "outline" -> o [] k = "text_gradient" -> t [] OTHER -> b]]
ValuesFor(k, ks) == IF k \in ks THEN SettingsFor(k) ELSE {EmptyDict}
EffectMaps ==
    UNION {{EffectsOf(ks, d, g, s, o, t, b) :
                d \in ValuesFor("3d_depth", ks), g \in ValuesFor("glow", ks),
                s \in ValuesFor("shadow", ks), o \in ValuesFor("outline", ks),
                t \in ValuesFor("text_gradient", ks), b \in ValuesFor("background_gradient", ks)} :
           ks \in {k \in SUBSET EffectKinds : Cardinality(k) <= MaxEffects}}
NoEffects == [keys |-> {}, val |-> [k \in EffectKinds |-> EmptyDict]]
OneEffect(kind, s) == [keys |-> {kind}, val |-> [k \in EffectKinds |-> IF k = kind THEN s ELSE EmptyDict]]

\* self.effect_presets
PresetDepthLayers == 10
PresetDepthAngle == 45
PresetDepthDistance == 2
PresetDepthColors == <<"#333333", "#666666", "#999999">>
PresetOutlineWidth == 2
PresetOutlineColor == "#000000"
PresetGlowColor == "#FFFFFF"
PresetGlowRadius == 10
PresetGlowOpacity == 70
PresetShadowOpacity == 50
PresetShadowBlur == 3
PresetBgOpacity == 70
PresetShadowColor == "#000000"
PresetShadowOffset == <<5, 5>>
PresetUseMask == TRUE
PresetBgPadding == 10

----------------------------------------------------------------------------
(* _apply_text_effects: the draw operations it performs on the canvas *)

\* blur: the radius of the Gaussian blur the drawn layer went through;
\* opacity: the factor (in hundredths) its alpha was multiplied by.
DrawOp(kind, x, y, fill) ==
    [kind |-> kind, x |-> x, y |-> y, fill |-> fill, layer |-> 0, blur |-> 0, opacity |-> 100]

ISqrt(n) == CHOOSE r \in 0..n : r * r <= n /\ n < (r + 1) * (r + 1)

\* (int(cos(angle) * distance * i), int(sin(angle) * distance * i)) for the
\* angles 0, 45 and 90 degrees; cos(45 deg) * m = sqrt(m * m / 2).
DepthOffset(angle, distance, i) ==
    LET m == distance * i
    IN  CASE angle = 0 -> <<m, 0>>
          [] angle = 90 -> <<0, m>>
          [] OTHER -> <<ISqrt((m * m) \div 2), ISqrt((m * m) \div 2)>>

\* The copies of the 3D depth effect, back to front: i = layers, ..., 1.
DepthDrawsFrontToBack(position, d) ==
    LET layers == Get(d, "layers", PresetDepthLayers)
        colors == PresetDepthColors
        copy(i) ==
            LET off == DepthOffset(Get(d, "angle", PresetDepthAngle),
                                   Get(d, "distance", PresetDepthDistance), i)
                idx == Min((i * Len(colors)) \div layers, Len(colors) - 1)
            IN  DrawOp("depth", position[1] + off[1], position[2] + off[2], colors[idx + 1])
    IN  [n \in 1..layers |-> copy(n)]
DepthDraws(position, d) ==
    LET layers == Get(d, "layers", PresetDepthLayers)
        colors == PresetDepthColors
        copy(i) ==
            LET off == DepthOffset(Get(d, "angle", PresetDepthAngle),
                                   Get(d, "distance", PresetDepthDistance), i)
                idx == Min((i * Len(colors)) \div layers, Len(colors) - 1)
            IN  DrawOp("depth", position[1] + off[1], position[2] + off[2], colors[idx + 1])
    IN  [n \in 1..layers |-> copy(layers - n + 1)]

\* The offsets of the outline pass in the order of the two nested loops.
OutlineOffsetsAll(width) ==
    LET side == 2 * width + 1
    IN  [n \in 1..(side * side) |-> <<((n - 1) \div side) - width, ((n - 1) % side) - width>>]
OutlineOffsets(width) ==
    LET side == 2 * width + 1
        all == [n \in 1..(side * side) |-> <<((n - 1) \div side) - width, ((n - 1) % side) - width>>]
    IN  SelectSeq(all, LAMBDA o : o[1] # 0 \/ o[2] # 0)

OutlineDraws(position, o) ==
    LET width == Get(o, "width", PresetOutlineWidth)
        offs == OutlineOffsets(width)
    IN  [n \in 1..Len(offs) |->
            DrawOp("outline", position[1] + offs[n][1], position[2] + offs[n][2],
                   Get(o, "color", PresetOutlineColor))]

Prefix(s, n) == SubSeq(s, 1, Min(n, Len(s)))

\* A block inside its own try/except: a failure is caught and logged.
GlowBlock(position, g, failed) ==
    IF Truthy(g) /\ ~failed
    THEN <<[DrawOp("glow", position[1], position[2], Get(g, "color", PresetGlowColor))
                EXCEPT !.blur = Get(g, "radius", PresetGlowRadius),
                       !.opacity = Get(g, "opacity", PresetGlowOpacity)]>>
    ELSE <<>>

ShadowBlock(position, s, failed) ==
    IF Truthy(s) /\ ~failed
    THEN <<[DrawOp("shadow", position[1] + PresetShadowOffset[1], position[2] + PresetShadowOffset[2],
                   Get(s, "color", PresetShadowColor))
                EXCEPT !.blur = Get(s, "blur", PresetShadowBlur),
                       !.opacity = Get(s, "opacity", PresetShadowOpacity)]>>
    ELSE <<>>

OutlineBlock(position, o, failed, failAt) ==
    IF ~Truthy(o) THEN <<>>
    ELSE IF failed THEN Prefix(OutlineDraws(position, o), failAt)
    ELSE OutlineDraws(position, o)

\* The padded, clamped box of the background gradient.
BgBox(imsize, bbox, position, padding) ==
    LET x1 == Max(0, position[1] + bbox[1] - padding)
        y1 == Max(0, position[2] + bbox[2] - padding)
        x2 == Min(imsize[1], position[1] + bbox[3] + padding)
        y2 == Min(imsize[2], position[2] + bbox[4] + padding)
    IN  [x1 |-> x1, y1 |-> y1, w |-> x2 - x1, h |-> y2 - y1]

\* if text_gradient: ... elif background_gradient: ... else: main text.
\* raised: the block let an error through to the outer handler.
Done(ops) == [ops |-> ops, raised |-> FALSE]
Thrown(ops) == [ops |-> ops, raised |-> TRUE]

PlainText(position, color, fail) ==
    IF fail = "color" THEN Thrown(<<>>)
    ELSE Done(<<DrawOp("text", position[1], position[2], color)>>)

MainBlock(imsize, bbox, position, color, tg, bg, fail) ==
    LET plain == PlainText(position, color, fail)
        box == BgBox(imsize, bbox, position, PresetBgPadding)
    IN  IF Truthy(tg) THEN
            IF fail = "text_gradient" THEN plain
            ELSE IF Get(tg, "use_mask", PresetUseMask)
                 THEN Done(<<DrawOp("gradient", position[1], position[2], "gradient")>>)
                 ELSE Done(<<DrawOp("text", position[1], position[2], DefaultInk)>>)
        ELSE IF Truthy(bg) THEN
            IF fail = "background_gradient" \/ box.w < 0 \/ box.h < 0 THEN plain
            ELSE [plain EXCEPT !.ops =
                    <<[DrawOp("background", box.x1, box.y1, "gradient")
                         EXCEPT !.opacity = Get(bg, "opacity", PresetBgOpacity)]>> \o @]
        ELSE plain

\* if not color or not isinstance(color, str): color = "#FFFFFF"
NormalizeColor(color) == IF color = "" THEN White ELSE color

\* The effect steps a call with this mapping executes, in order.
StepsOf(effects) ==
    {k \in EffectKinds \ {"text_gradient", "background_gradient"} : Truthy(Get(effects, k, EmptyDict))}
    \cup (IF Truthy(Get(effects, "text_gradient", EmptyDict)) THEN {"text_gradient"}
          ELSE IF Truthy(Get(effects, "background_gradient", EmptyDict)) THEN {"background_gradient"}
          ELSE {})

\* except Exception: draw.text(position, text, fill="#FFFFFF", font=font)
OuterFallbackRaises(ops, position) == Thrown(ops)
OuterFallback(ops, position) ==
    Done(ops \o <<DrawOp("text", position[1], position[2], White)>>)

\* The whole of _apply_text_effects.  fail names what goes wrong in the call:
\* "none"; an effect step, in which a rendering error is raised after failAt
\* of its draw calls; "color", drawing text in the base colour raises; "draw",
\* every draw.text raises.  The result is the operations drawn on the canvas
\* and whether the function raised.
ApplyTextEffects(imsize, bbox, position, color0, effects, fail, failAt) ==
    LET color == NormalizeColor(color0)
        depth_3d == Get(effects, "3d_depth", EmptyDict)
        glow == Get(effects, "glow", EmptyDict)
        shadow == Get(effects, "shadow", EmptyDict)
        outline == Get(effects, "outline", EmptyDict)
        text_gradient == Get(effects, "text_gradient", EmptyDict)
        background_gradient == Get(effects, "background_gradient", EmptyDict)
        main == MainBlock(imsize, bbox, position, color, text_gradient, background_gradient, fail)
        before == (IF Truthy(depth_3d) THEN DepthDraws(position, depth_3d) ELSE <<>>)
                    \o GlowBlock(position, glow, fail = "glow")
                    \o ShadowBlock(position, shadow, fail = "shadow")
                    \o OutlineBlock(position, outline, fail = "outline", failAt)
    IN  IF fail = "draw" THEN Thrown(<<>>)
        ELSE IF ~Truthy(effects)
        THEN IF fail = "color" THEN OuterFallback(<<>>, position)
             ELSE Done(<<DrawOp("text", position[1], position[2], color)>>)
        ELSE IF Truthy(depth_3d) /\ fail = "3d_depth"
        THEN \* not in a try of its own: the outer handler draws white text
             OuterFallback(Prefix(DepthDraws(position, depth_3d), failAt), position)
        ELSE IF main.raised THEN OuterFallback(before \o main.ops, position)
        ELSE Done(before \o main.ops)

----------------------------------------------------------------------------
(* Image.copy, Image.resize and Image.paste *)

\* canvas = background.copy(): the copy is a new image of its own.
CopyTargetAlias(src, fresh) == src
CopyTarget(src, fresh) == fresh

\* Pillow's DIV255 and BLEND8 (Image.paste with a mask), on 8-bit channels.
Div255(a) == LET tmp == a + 128 IN ((tmp \div 256) + tmp) \div 256
Blend8(mask, in1, in2) == Div255(in1 * (255 - mask) + in2 * mask)

\* One pixel of final_image.paste(foreground, (0, 0), foreground): every band
\* of the destination is blended with the source under the source's alpha.
PastePixelOpaque(dst, src) == src
PastePixel(dst, src) == [c \in 1..4 |-> Blend8(src[4], dst[c], src[c])]

\* paste at (0, 0): the pixels of the destination the source covers
PasteImage(dst, src) ==
    LET dw == dst.size[1]
        sw == src.size[1]
        sh == src.size[2]
        at(i) ==
            LET x == (i - 1) % dw
                y == (i - 1) \div dw
            IN  IF x < sw /\ y < sh
                THEN PastePixel(dst.px[i], src.px[y * sw + x + 1])
                ELSE dst.px[i]
    IN  [dst EXCEPT !.px = [i \in 1..Len(dst.px) |-> at(i)]]

\* The size foreground.resize(...) is asked for in compose_final_image.
ResizeTargetKeep(fgsize, bgsize) == fgsize
ResizeTarget(fgsize, bgsize) == bgsize

\* Image.resize(size, LANCZOS): an image of the requested size; which pixels
\* the resampling filter produces is left open among the test images.
Resized(size) == {NewImage(size, PatternPixels(size, k)) : k \in 0..(Len(Palette) - 1)}

----------------------------------------------------------------------------
(* Templates *)

\* _get_social_media_dimensions
TemplateNames ==
    {"instagram_post", "instagram_story", "facebook_post", "twitter_post",
     "linkedin_post", "youtube_thumbnail", "tiktok_video"}
TemplateTable(name) ==
    CASE name = "instagram_post" -> <<1080, 1080>>
      [] name = "instagram_story" -> <<1080, 1920>>
      [] name = "facebook_post" -> <<1200, 630>>
      [] name = "twitter_post" -> <<1600, 900>>
      [] name = "linkedin_post" -> <<1200, 627>>
      [] name = "youtube_thumbnail" -> <<1280, 720>>
      [] name = "tiktok_video" -> <<1080, 1920>>
DefaultTemplateSize == <<1080, 1080>>
GetSocialMediaDimensionsSwapped(name) ==
    IF name \in TemplateNames THEN <<TemplateTable(name)[2], TemplateTable(name)[1]>>
    ELSE DefaultTemplateSize
GetSocialMediaDimensions(name) ==
    IF name \in TemplateNames THEN TemplateTable(name) ELSE DefaultTemplateSize

\* The route's validation of a template request.
RouteTemplateName(name) == IF name \in TemplateNames THEN name ELSE "instagram_post"
RoutePadding(p) == Max(0, Min(30, p))

\* The route's validation of a blend request; opacities are in hundredths.
RouteBlendMode(m) == IF m \in {"normal", "multiply", "screen", "overlay"} THEN m ELSE "normal"
RouteBlendOpacity(o) == Max(0, Min(100, o))

RECURSIVE GCD(_, _)
GCD(a, b) == IF b = 0 THEN a ELSE GCD(b, a % b)
IsPow2(n) == \E e \in 0..12 : n = 2 ^ e

\* fg_aspect = fg_width / fg_height is an exact double when the reduced
\* denominator is a power of two.
AspectExact(fg_width, fg_height) == IsPow2(fg_height \div GCD(fg_width, fg_height))

\* int(n * fg_aspect) and int(n / fg_aspect) in double arithmetic, the exact
\* quotient being (n * a) / b: its floor, or one less when the quotient is an
\* integer and the rounded aspect makes the result fall short of it.
FloatScaled(n, a, b, exact) ==
    LET q == (n * a) \div b
    IN  IF (n * a) % b = 0 /\ ~exact THEN {q, q - 1} ELSE {q}

\* The scaled foreground sizes create_template may compute.
ScaledSizesFill(avail_width, avail_height, fg_width, fg_height) ==
    LET exact == AspectExact(fg_width, fg_height)
    IN  IF avail_width * fg_height > fg_width * avail_height
        THEN {<<avail_width, h>> : h \in FloatScaled(avail_width, fg_height, fg_width, exact)}
        ELSE {<<w, avail_height>> : w \in FloatScaled(avail_height, fg_width, fg_height, exact)}
ScaledSizes(avail_width, avail_height, fg_width, fg_height) ==
    LET exact == AspectExact(fg_width, fg_height)
    IN  IF avail_width * fg_height > fg_width * avail_height
        THEN {<<w, avail_height>> : w \in FloatScaled(avail_height, fg_width, fg_height, exact)}
        ELSE {<<avail_width, h>> : h \in FloatScaled(avail_width, fg_height, fg_width, exact)}

----------------------------------------------------------------------------
(* Requests *)

Ops ==
    {"add_text", "add_dramatic_text", "add_3d_text", "add_multiple_text_layers",
     "compose_final_image", "create_template"}

\* Image references: local paths, and URLs (path.startswith('http')).
LocalBackground == "uploads/bg.png"
LocalForeground == "uploads/fg.png"
RemoteBackground == "http://cdn/bg.png"
RemoteForeground == "http://cdn/fg.png"
StartsWithHttp(path) == path \in {RemoteBackground, RemoteForeground}

Layer(position, bbox, color, effects) ==
    [position |-> position, bbox |-> bbox, color |-> color, effects |-> effects, text |-> "hi"]

OutlineOne == OneEffect("outline", Settings({"width"}, 0, 1, FALSE))
GradientMasked == OneEffect("text_gradient", Settings({"use_mask"}, 0, 0, TRUE))

Layers ==
    {Layer(p, b, c, e) :
        p \in {PosDict({"x", "y"}, 0, 0), PosDict({"x", "y"}, 100, 100)},
        b \in {<<0, 0, 200, 50>>, <<0, 1, 1, 5>>},
        c \in {"#FF0000", "#00FF00"},
        e \in {NoEffects, OutlineOne}}

LayerLists == UNION {[1..n -> Layers] : n \in 0..MaxLayers}

FgSizes ==
    ((1..MaxImgW) \X (1..MaxImgH)) \cup {<<1, 5000>>, <<5000, 1>>, <<1920, 1080>>, <<9, 7>>}

Request(op, position, bbox, color, effects, layers, blend, template_name, padding, via, fgsize) ==
    [op |-> op, position |-> position, bbox |-> bbox, color |-> color, effects |-> effects,
     layers |-> layers, blend_mode |-> blend[1], blend_opacity |-> blend[2],
     template_name |-> template_name, padding_percent |-> padding, via_route |-> via,
     fg_size |-> fgsize, background_path |-> LocalBackground, foreground_path |-> LocalForeground,
     text |-> "hi", with_period |-> FALSE, to_uppercase |-> FALSE,
     effect_type |-> "", effect_settings |-> EmptyDict]

NoPosition == PosDict({}, 0, 0)
NoBBox == <<0, 0, 0, 0>>
NoBlend == <<"normal", 100>>

\* blend_opacity in hundredths
BlendModes == {"normal", "multiply", "dissolve"}
BlendOpacities == {0, 50, 100, 150}

AddTextRequests ==
    {Request("add_text", p, b, "#FF0000", e, <<>>, NoBlend, "", 0, FALSE, <<1, 1>>) :
        p \in Positions, b \in BBoxes, e \in {NoEffects, OutlineOne, GradientMasked}}
    \cup
    {Request("add_text", PosDict({"x", "y"}, 100, 100), b, c, e, <<>>, NoBlend, "", 0, FALSE, <<1, 1>>) :
        b \in {<<0, 0, 200, 50>>, <<0, 1, 1, 5>>}, c \in {"#FF0000", ""}, e \in EffectMaps}

LayerRequests ==
    {Request("add_multiple_text_layers", NoPosition, NoBBox, "", NoEffects, ls, NoBlend, "", 0, FALSE, <<1, 1>>) :
        ls \in LayerLists}

ComposeRequests ==
    {Request("compose_final_image", NoPosition, NoBBox, "", NoEffects, <<>>, <<m, o>>, "", 0, via, <<1, 1>>) :
        m \in BlendModes, o \in BlendOpacities, via \in BOOLEAN}

TemplateRequests ==
    {Request("create_template", NoPosition, NoBBox, "", NoEffects, <<>>, NoBlend, t, p, via, f) :
        t \in TemplateNames \cup {"pinterest_pin"}, p \in {0, 10, 30, 45}, via \in BOOLEAN, f \in FgSizes}

\* Texts: None (no text given), the empty string and a few words.
NoneValue == "<None>"
Texts == {NoneValue, "", "hi", "hi."}
Falsy(text) == text \in {NoneValue, ""}
EndsWithPeriod(text) == text \in {"hi.", "HI.", "SAMPLE TEXT."}
WithPeriod(text) ==
    CASE text = "hi" -> "hi." [] text = "HI" -> "HI." [] text = "SAMPLE TEXT" -> "SAMPLE TEXT."
      [] OTHER -> text
Upper(text) == CASE text = "hi" -> "HI" [] text = "hi." -> "HI." [] OTHER -> text

DramaticRequests ==
    {[Request("add_dramatic_text", p, <<0, 0, 200, 50>>, "#FF0000", e, <<>>, NoBlend, "", 0, FALSE, <<1, 1>>)
        EXCEPT !.text = t, !.with_period = wp, !.to_uppercase = up, !.background_path = b] :
        p \in {PosDict({}, 0, 0), PosDict({"x"}, 0, 0), PosDict({"x", "y"}, 100, 100)},
        e \in {NoEffects, OutlineOne}, t \in Texts, wp \in BOOLEAN, up \in BOOLEAN,
        b \in {"", LocalBackground}}

\* Requests of the add-3d-text route; no effect_settings (None) and {} are
\* both the settings without keys.
EffectTypes == {"3d_depth", "shadow", "glow", "outline", "sparkle", ""}
Text3DRequests ==
    UNION {{[Request("add_3d_text", PosDict({"x", "y"}, 100, 100), b, "#FF0000", NoEffects, <<>>,
                     NoBlend, "", 0, TRUE, <<1, 1>>)
               EXCEPT !.effect_type = t, !.effect_settings = st] :
                b \in {<<0, 0, 200, 50>>, <<0, 1, 1, 5>>},
                st \in (IF t \in EffectKinds THEN SettingsFor(t) ELSE {EmptyDict})} :
           t \in EffectTypes}

\* Calls with remote references.
RemoteRequests ==
    {[r EXCEPT !.background_path = RemoteBackground] :
        r \in {q \in AddTextRequests : q.position = PosDict({"x", "y"}, 100, 100) /\ q.effects = OutlineOne}}
    \cup
    {[r EXCEPT !.background_path = RemoteBackground] :
        r \in {q \in LayerRequests : Len(q.layers) = 1}}
    \cup
    {[r EXCEPT !.background_path = b, !.foreground_path = f] :
        r \in {q \in ComposeRequests : q.blend_mode = "normal" /\ q.blend_opacity = 100 /\ ~q.via_route},
        b \in {LocalBackground, RemoteBackground}, f \in {RemoteForeground}}
    \cup
    {[r EXCEPT !.foreground_path = RemoteForeground] :
        r \in {q \in TemplateRequests : q.padding_percent = 10 /\ q.via_route /\ q.fg_size = <<1920, 1080>>}}

Requests ==
    AddTextRequests \cup LayerRequests \cup ComposeRequests \cup TemplateRequests \cup RemoteRequests
    \cup DramaticRequests \cup Text3DRequests

----------------------------------------------------------------------------
(* State *)

NoMetrics ==
    [text_width |-> 0, text_height |-> 0, pos_x |-> 0, pos_y |-> 0, adjusted |-> <<0, 0>>,
     text |-> NoneValue]
NoTemplate ==
    [width |-> 0, height |-> 0, padding_px |-> 0, avail_width |-> 0, avail_height |-> 0,
     new_width |-> 0, new_height |-> 0, pos_x |-> 0, pos_y |-> 0]
NoResult ==
    [status |-> "none", value |-> "", position |-> <<0, 0>>, text_size |-> <<0, 0>>,
     image_size |-> <<0, 0>>]

\* A single call of the composition service: no other call is in flight and the
\* cleanup service has not been started.
NoCalls == <<>>
NothingTracked == [p \in {} |-> 0]
ServicesIdleInit ==
    /\ clock = 0
    /\ calls = NoCalls
    /\ files_to_cleanup = NothingTracked
    /\ on_disk = {}
    /\ task = "none"
    /\ files_to_remove = {}
ServicesIdle == UNCHANGED <<clock, calls, files_to_cleanup, on_disk, task, files_to_remove>>

Init ==
    /\ req \in Requests
    /\ pc = req.op
    /\ heap = [r \in Refs |-> NoImage]
    /\ canvasRef = "none"
    /\ fgRef = "none"
    /\ metrics = NoMetrics
    /\ layerIdx = 1
    /\ template = NoTemplate
    /\ files = {}
    /\ fault = <<"none", 0>>
    /\ fetches = <<>>
    /\ uploads = {}
    /\ result = NoResult
    /\ ServicesIdleInit

\* _get_image_from_url: one requests.get(url, timeout=60), whether or not it
\* succeeds; the log of requests after the call.
GetImageFromUrlRetry(log, url, ok) == IF ok THEN Append(log, url) ELSE Append(Append(log, url), url)
GetImageFromUrl(log, url, ok) == Append(log, url)

\* if path.startswith('http'): ... else: Image.open(path).convert('RGBA')
Fetched(path, ok) == IF StartsWithHttp(path) THEN GetImageFromUrl(fetches, path, ok) ELSE fetches
LoadError(path) == IF StartsWithHttp(path) THEN "fetch" ELSE "load"

Raise(kind) ==
    /\ pc' = "raised"
    /\ result' = [NoResult EXCEPT !.status = "raised", !.value = kind]

\* The canvas after the operations of one _apply_text_effects call.
Drawn(image, ops, layer) ==
    [image EXCEPT !.ops = @ \o [n \in 1..Len(ops) |-> [ops[n] EXCEPT !.layer = layer]]]

\* The failures a call of _apply_text_effects may meet: none, or one effect
\* step of those it executes, after failAt of its draw calls.
Failures(effects) ==
    {<<"none", 0>>, <<"color", 0>>, <<"draw", 0>>} \cup
    {<<k, n>> : k \in (IF Truthy(effects) THEN StepsOf(effects) ELSE {}), n \in 0..MaxFailAt}

----------------------------------------------------------------------------
(* add_dramatic_text; every error is re-raised as a ValueError *)

DefaultDramaticCoord == 100

\* if not text: text = "SAMPLE TEXT"; the period; the upper case
DramaticText(text, with_period, to_uppercase) ==
    LET t1 == IF Falsy(text) THEN "SAMPLE TEXT" ELSE text
        t2 == IF with_period /\ ~EndsWithPeriod(t1) THEN WithPeriod(t1) ELSE t1
    IN  IF to_uppercase THEN Upper(t2) ELSE t2

\* position = {"x": int(position.get("x", 100)), "y": int(position.get("y", 100))},
\* and {"x": 100, "y": 100} for an empty position
DramaticPosition(position) ==
    PosDict({"x", "y"}, Get(position, "x", DefaultDramaticCoord), Get(position, "y", DefaultDramaticCoord))

\* The arguments add_text is called with.
TextPassed ==
    IF req.op = "add_dramatic_text" THEN DramaticText(req.text, req.with_period, req.to_uppercase)
    ELSE req.text
PositionPassed ==
    IF req.op = "add_dramatic_text" THEN DramaticPosition(req.position) ELSE req.position

\* add_3d_text: effects[effect_type] = request.effect_settings or {}
Route3DEffects(effect_type, effect_settings) ==
    IF effect_type \in {"3d_depth", "shadow", "glow", "outline"}
    THEN OneEffect(effect_type, effect_settings)
    ELSE NoEffects
EffectsPassed ==
    IF req.op = "add_3d_text" THEN Route3DEffects(req.effect_type, req.effect_settings)
    ELSE req.effects

\* the route add_3d_text, up to its call of add_text
Add3DText ==
    /\ pc = "add_3d_text"
    /\ pc' = "add_text"
    /\ UNCHANGED <<fetches, uploads, fault, req, heap, canvasRef, fgRef, metrics, layerIdx, template,
                   files, result>>
    /\ ServicesIdle

\* the validation of add_dramatic_text, up to its call of add_text
AddDramaticText ==
    /\ pc = "add_dramatic_text"
    /\ IF req.background_path = ""
       THEN Raise("invalid")
       ELSE pc' = "add_text" /\ UNCHANGED result
    /\ UNCHANGED <<fetches, uploads, fault, req, heap, canvasRef, fgRef, metrics, layerIdx, template, files>>
    /\ ServicesIdle

----------------------------------------------------------------------------
(* add_text *)

\* background = Image.open(...).convert('RGBA'), or the fetch of a URL
AddTextLoad ==
    /\ pc = "add_text"
    /\ \E ok \in BOOLEAN :
          /\ fetches' = Fetched(req.background_path, ok)
          /\ IF ok
             THEN /\ \E img \in DecodedImages : heap' = [heap EXCEPT !["background"] = img]
                  /\ pc' = "add_text_copy"
                  /\ UNCHANGED result
             ELSE Raise(LoadError(req.background_path)) /\ UNCHANGED heap
    /\ UNCHANGED <<uploads, fault, req, canvasRef, fgRef, metrics, layerIdx, template, files>>
    /\ ServicesIdle

\* canvas = background.copy(); draw = ImageDraw.Draw(canvas)
AddTextCopy ==
    /\ pc = "add_text_copy"
    /\ canvasRef' = CopyTarget("background", "canvas")
    /\ heap' = [heap EXCEPT ![canvasRef'] = heap["background"]]
    /\ pc' = "add_text_measure"
    /\ UNCHANGED <<fetches, uploads, fault, req, fgRef, metrics, layerIdx, template, files, result>>
    /\ ServicesIdle

\* the font, the text size and the adjusted position
AddTextMeasure ==
    /\ pc = "add_text_measure"
    /\ LET tw == TextWidth(req.bbox)
           th == TextHeight(req.bbox)
           px == Get(PositionPassed, "x", DefaultCoord)
           py == Get(PositionPassed, "y", DefaultCoord)
       IN  metrics' = [text_width |-> tw, text_height |-> th, pos_x |-> px, pos_y |-> py,
                       adjusted |-> AddTextPosition(px, py, tw, th), text |-> TextPassed]
    /\ pc' = "add_text_effects"
    /\ UNCHANGED <<fetches, uploads, fault, req, heap, canvasRef, fgRef, layerIdx, template, files, result>>
    /\ ServicesIdle

\* self._apply_text_effects(draw, text, (adjusted_pos_x, adjusted_pos_y), ...)
AddTextEffects ==
    /\ pc = "add_text_effects"
    /\ \E f \in Failures(EffectsPassed) :
          LET r == ApplyTextEffects(heap[canvasRef].size, req.bbox, metrics.adjusted,
                                    req.color, EffectsPassed, f[1], f[2])
          IN  /\ fault' = f
              /\ heap' = [heap EXCEPT ![canvasRef] = Drawn(@, r.ops, 1)]
              /\ IF r.raised THEN Raise("render")
                 ELSE pc' = "add_text_save" /\ UNCHANGED result
    /\ UNCHANGED <<fetches, uploads, req, canvasRef, fgRef, metrics, layerIdx, template, files>>
    /\ ServicesIdle

\* canvas.save(text_path, "PNG")
AddTextSave ==
    /\ pc = "add_text_save"
    /\ files' = files \cup {[path |-> "text", image |-> heap[canvasRef]]}
    /\ pc' = "add_text_upload"
    /\ UNCHANGED <<fetches, uploads, fault, req, heap, canvasRef, fgRef, metrics, layerIdx, template, result>>
    /\ ServicesIdle

\* "position": {"x": pos_x, "y": pos_y} of the returned info
InfoPositionAdjusted(pos_x, pos_y, adjusted) == adjusted
InfoPosition(pos_x, pos_y, adjusted) == <<pos_x, pos_y>>

\* cloud_url = await self.cloudinary.upload_image(...); return path, info
AddTextUpload ==
    /\ pc = "add_text_upload"
    /\ \/ Raise("upload") /\ UNCHANGED uploads
       \/ /\ uploads' = uploads \cup {"text"}
          /\ pc' = "returned"
          /\ result' = [status |-> "returned", value |-> "text",
                        position |-> InfoPosition(metrics.pos_x, metrics.pos_y, metrics.adjusted),
                        text_size |-> <<metrics.text_width, metrics.text_height>>,
                        image_size |-> heap["background"].size]
    /\ UNCHANGED <<fetches, fault, req, heap, canvasRef, fgRef, metrics, layerIdx, template, files>>
    /\ ServicesIdle

----------------------------------------------------------------------------
(* add_multiple_text_layers; every error is re-raised as a ValueError *)

LayersLoad ==
    /\ pc = "add_multiple_text_layers"
    /\ \E ok \in BOOLEAN :
          /\ fetches' = Fetched(req.background_path, ok)
          /\ IF ok
             THEN /\ \E img \in DecodedImages : heap' = [heap EXCEPT !["background"] = img]
                  /\ pc' = "layers_copy"
                  /\ UNCHANGED result
             ELSE Raise(LoadError(req.background_path)) /\ UNCHANGED heap
    /\ UNCHANGED <<uploads, fault, req, canvasRef, fgRef, metrics, layerIdx, template, files>>
    /\ ServicesIdle

LayersCopy ==
    /\ pc = "layers_copy"
    /\ canvasRef' = CopyTarget("background", "canvas")
    /\ heap' = [heap EXCEPT ![canvasRef'] = heap["background"]]
    /\ pc' = "layers_loop"
    /\ UNCHANGED <<fetches, uploads, fault, req, fgRef, metrics, layerIdx, template, files, result>>
    /\ ServicesIdle

\* The index of the layer the loop handles in its n-th iteration.
LayerAtReversed(n, len) == len - n + 1
LayerAt(n, len) == n

\* one iteration of: for i, layer in enumerate(text_layers)
LayersIteration ==
    /\ pc = "layers_loop"
    /\ layerIdx <= Len(req.layers)
    /\ LET i == LayerAt(layerIdx, Len(req.layers))
           layer == req.layers[i]
           tw == TextWidth(layer.bbox)
           th == TextHeight(layer.bbox)
           px == Get(layer.position, "x", DefaultCoord)
           py == Get(layer.position, "y", DefaultCoord)
           adj == LayerPosition(px, py, tw, th)
       IN  /\ metrics' = [text_width |-> tw, text_height |-> th, pos_x |-> px, pos_y |-> py,
                          adjusted |-> adj, text |-> layer.text]
           /\ \E f \in Failures(layer.effects) :
                 LET r == ApplyTextEffects(heap[canvasRef].size, layer.bbox, adj,
                                           layer.color, layer.effects, f[1], f[2])
                 IN  /\ fault' = f
                     /\ heap' = [heap EXCEPT ![canvasRef] = Drawn(@, r.ops, i)]
                     /\ IF r.raised THEN Raise("render") /\ UNCHANGED layerIdx
                        ELSE /\ layerIdx' = layerIdx + 1
                             /\ UNCHANGED <<pc, result>>
    /\ UNCHANGED <<fetches, uploads, req, canvasRef, fgRef, template, files>>
    /\ ServicesIdle

LayersSave ==
    /\ pc = "layers_loop"
    /\ layerIdx > Len(req.layers)
    /\ files' = files \cup {[path |-> "multilayer_text", image |-> heap[canvasRef]]}
    /\ pc' = "layers_upload"
    /\ UNCHANGED <<fetches, uploads, fault, req, heap, canvasRef, fgRef, metrics, layerIdx, template, result>>
    /\ ServicesIdle

\* return cloud_result["url"]
LayersUpload ==
    /\ pc = "layers_upload"
    /\ \/ Raise("upload") /\ UNCHANGED uploads
       \/ /\ uploads' = uploads \cup {"multilayer_text"}
          /\ pc' = "returned"
          /\ result' = [NoResult EXCEPT !.status = "returned", !.value = "url"]
    /\ UNCHANGED <<fetches, fault, req, heap, canvasRef, fgRef, metrics, layerIdx, template, files>>
    /\ ServicesIdle

----------------------------------------------------------------------------
(* compose_final_image; every error is re-raised as a ValueError *)

\* The blend arguments the service is called with.
BlendModePassed == IF req.via_route THEN RouteBlendMode(req.blend_mode) ELSE req.blend_mode
BlendOpacityPassed ==
    IF req.via_route THEN RouteBlendOpacity(req.blend_opacity) ELSE req.blend_opacity

ComposeLoadBackground ==
    /\ pc = "compose_final_image"
    /\ \E ok \in BOOLEAN :
          /\ fetches' = Fetched(req.background_path, ok)
          /\ IF ok
             THEN /\ \E img \in DecodedImages : heap' = [heap EXCEPT !["background"] = img]
                  /\ pc' = "compose_load_foreground"
                  /\ UNCHANGED result
             ELSE Raise(LoadError(req.background_path)) /\ UNCHANGED heap
    /\ UNCHANGED <<uploads, fault, req, canvasRef, fgRef, metrics, layerIdx, template, files>>
    /\ ServicesIdle

ComposeLoadForeground ==
    /\ pc = "compose_load_foreground"
    /\ \E ok \in BOOLEAN :
          /\ fetches' = Fetched(req.foreground_path, ok)
          /\ IF ok
             THEN /\ \E img \in DecodedImages : heap' = [heap EXCEPT !["foreground"] = img]
                  /\ fgRef' = "foreground"
                  /\ pc' = "compose_resize"
                  /\ UNCHANGED result
             ELSE Raise(LoadError(req.foreground_path)) /\ UNCHANGED <<heap, fgRef>>
    /\ UNCHANGED <<uploads, fault, req, canvasRef, metrics, layerIdx, template, files>>
    /\ ServicesIdle

\* if foreground.size != background_with_text.size: foreground = foreground.resize(...)
ComposeResize ==
    /\ pc = "compose_resize"
    /\ IF heap[fgRef].size # heap["background"].size
       THEN /\ \E img \in Resized(ResizeTarget(heap[fgRef].size, heap["background"].size)) :
                  heap' = [heap EXCEPT !["resized"] = img]
            /\ fgRef' = "resized"
       ELSE UNCHANGED <<heap, fgRef>>
    /\ pc' = "compose_paste"
    /\ UNCHANGED <<fetches, uploads, fault, req, canvasRef, metrics, layerIdx, template, files, result>>
    /\ ServicesIdle

\* final_image = background_with_text.copy(); final_image.paste(foreground, (0, 0), foreground)
ComposePaste ==
    /\ pc = "compose_paste"
    /\ canvasRef' = CopyTarget("background", "final")
    /\ heap' = [heap EXCEPT ![canvasRef'] = PasteImage(heap["background"], heap[fgRef])]
    /\ pc' = "compose_save"
    /\ UNCHANGED <<fetches, uploads, fault, req, fgRef, metrics, layerIdx, template, files, result>>
    /\ ServicesIdle

ComposeSave ==
    /\ pc = "compose_save"
    /\ files' = files \cup {[path |-> "composed", image |-> heap[canvasRef]]}
    /\ pc' = "compose_upload"
    /\ UNCHANGED <<fetches, uploads, fault, req, heap, canvasRef, fgRef, metrics, layerIdx, template, result>>
    /\ ServicesIdle

\* cloud_url = await self.cloudinary.upload_image(...); return str(composed_path)
ComposeUpload ==
    /\ pc = "compose_upload"
    /\ \/ Raise("upload") /\ UNCHANGED uploads
       \/ /\ uploads' = uploads \cup {"composed"}
          /\ pc' = "returned"
          /\ result' = [NoResult EXCEPT !.status = "returned", !.value = "composed"]
    /\ UNCHANGED <<fetches, fault, req, heap, canvasRef, fgRef, metrics, layerIdx, template, files>>
    /\ ServicesIdle

----------------------------------------------------------------------------
(* create_template *)

\* The arguments the service is called with.
TemplateNamePassed ==
    IF req.via_route THEN RouteTemplateName(req.template_name) ELSE req.template_name
PaddingPassed ==
    IF req.via_route THEN RoutePadding(req.padding_percent) ELSE req.padding_percent

TemplateLoad ==
    /\ pc = "create_template"
    /\ \E ok \in BOOLEAN :
          /\ fetches' = Fetched(req.foreground_path, ok)
          /\ IF ok
             THEN /\ heap' = [heap EXCEPT !["foreground"] = NewImage(req.fg_size, <<>>)]
                  /\ fgRef' = "foreground"
                  /\ pc' = "template_layout"
                  /\ UNCHANGED result
             ELSE Raise(LoadError(req.foreground_path)) /\ UNCHANGED <<heap, fgRef>>
    /\ UNCHANGED <<uploads, fault, req, canvasRef, metrics, layerIdx, template, files>>
    /\ ServicesIdle

\* the template's canvas, the padded box and the scaled foreground size
TemplateLayout ==
    /\ pc = "template_layout"
    /\ LET dims == GetSocialMediaDimensions(TemplateNamePassed)
           width == dims[1]
           height == dims[2]
           fg_width == heap[fgRef].size[1]
           fg_height == heap[fgRef].size[2]
           padding_px == (Min(width, height) * PaddingPassed) \div 100
           avail_width == width - 2 * padding_px
           avail_height == height - 2 * padding_px
       IN  /\ canvasRef' = "canvas"
           /\ heap' = [heap EXCEPT !["canvas"] = NewImage(<<width, height>>, <<>>)]
           /\ \E sz \in ScaledSizes(avail_width, avail_height, fg_width, fg_height) :
                 template' = [NoTemplate EXCEPT
                                 !.width = width, !.height = height, !.padding_px = padding_px,
                                 !.avail_width = avail_width, !.avail_height = avail_height,
                                 !.new_width = sz[1], !.new_height = sz[2]]
    /\ pc' = "template_resize"
    /\ UNCHANGED <<fetches, uploads, fault, req, fgRef, metrics, layerIdx, files, result>>
    /\ ServicesIdle

\* foreground_resized = foreground.resize((new_width, new_height), Image.LANCZOS)
TemplateResize ==
    /\ pc = "template_resize"
    /\ IF template.new_width <= 0 \/ template.new_height <= 0
       THEN Raise("resize") /\ UNCHANGED heap
       ELSE /\ heap' = [heap EXCEPT !["resized"] =
                            NewImage(<<template.new_width, template.new_height>>, <<>>)]
            /\ pc' = "template_paste"
            /\ UNCHANGED result
    /\ UNCHANGED <<fetches, uploads, fault, req, canvasRef, fgRef, metrics, layerIdx, template, files>>
    /\ ServicesIdle

\* background.paste(foreground_resized, (pos_x, pos_y), foreground_resized)
TemplatePaste ==
    /\ pc = "template_paste"
    /\ LET pos_x == (template.width - template.new_width) \div 2
           pos_y == (template.height - template.new_height) \div 2
       IN  /\ template' = [template EXCEPT !.pos_x = pos_x, !.pos_y = pos_y]
           /\ heap' = [heap EXCEPT ![canvasRef] =
                          Drawn(@, <<DrawOp("paste", pos_x, pos_y, "foreground")>>, 1)]
    /\ pc' = "template_save"
    /\ UNCHANGED <<fetches, uploads, fault, req, canvasRef, fgRef, metrics, layerIdx, files, result>>
    /\ ServicesIdle

TemplateSave ==
    /\ pc = "template_save"
    /\ files' = files \cup {[path |-> "template", image |-> heap[canvasRef]]}
    /\ pc' = "template_upload"
    /\ UNCHANGED <<fetches, uploads, fault, req, heap, canvasRef, fgRef, metrics, layerIdx, template, result>>
    /\ ServicesIdle

\* cloud_url = await self.cloudinary.upload_image(...); return cloud_url
TemplateUpload ==
    /\ pc = "template_upload"
    /\ \/ Raise("upload") /\ UNCHANGED uploads
       \/ /\ uploads' = uploads \cup {"template"}
          /\ pc' = "returned"
          /\ result' = [NoResult EXCEPT !.status = "returned", !.value = "url"]
    /\ UNCHANGED <<fetches, fault, req, heap, canvasRef, fgRef, metrics, layerIdx, template, files>>
    /\ ServicesIdle

----------------------------------------------------------------------------
(* The specification *)

Next ==
    \/ AddDramaticText \/ Add3DText
    \/ AddTextLoad \/ AddTextCopy \/ AddTextMeasure \/ AddTextEffects
    \/ AddTextSave \/ AddTextUpload
    \/ LayersLoad \/ LayersCopy \/ LayersIteration \/ LayersSave \/ LayersUpload
    \/ ComposeLoadBackground \/ ComposeLoadForeground \/ ComposeResize
    \/ ComposePaste \/ ComposeSave \/ ComposeUpload
    \/ TemplateLoad \/ TemplateLayout \/ TemplateResize \/ TemplatePaste
    \/ TemplateSave \/ TemplateUpload

Spec == Init /\ [][Next]_vars

----------------------------------------------------------------------------
(* _hex_to_rgba; a colour string is a sequence of characters *)

\* The characters colour strings are made of here: two hexadecimal digits and
\* a letter that is none.
HexAlphabet == {"A", "3", "G"}
IsHexDigit(c) == c \in {"A", "3"}
HexDigitValue(c) == CASE c = "A" -> 10 [] c = "3" -> 3 [] OTHER -> 0

HexBodies == UNION {[1..n -> HexAlphabet] : n \in 0..MaxHexLen}
Hashes(k) == [i \in 1..k |-> "#"]
ColorStrings == {Hashes(k) \o body : k \in 0..2, body \in HexBodies}

RGBAWhite == <<255, 255, 255, 255>>

\* int(s, 16) of a string of these characters: its value, or -1 for ValueError
RECURSIVE Int16(_)
Int16(cs) ==
    IF cs = <<>> THEN 0
    ELSE LET head == Int16(SubSeq(cs, 1, Len(cs) - 1))
             c == cs[Len(cs)]
         IN  IF head < 0 \/ ~IsHexDigit(c) THEN -1 ELSE 16 * head + HexDigitValue(c)

\* str.lstrip('#')
RECURSIVE LStripHash(_)
LStripHash(cs) == IF cs # <<>> /\ cs[1] = "#" THEN LStripHash(Tail(cs)) ELSE cs

\* The four channels, or ValueError when one of the int(..., 16) calls raised.
Channels(r, g, b, a) ==
    IF r < 0 \/ g < 0 \/ b < 0 \/ a < 0
    THEN [status |-> "raised", value |-> "ValueError"]
    ELSE [status |-> "returned", value |-> <<r, g, b, a>>]

Pair(h, i) == Int16(SubSeq(h, i, i + 1))
Single(h, i) == LET v == Int16(<<h[i]>>) IN IF v < 0 THEN -1 ELSE v * 17

HexToRgba(hex_color) ==
    IF hex_color # <<>> /\ hex_color[1] = "#"
    THEN LET h == LStripHash(hex_color)
         IN  CASE Len(h) = 8 -> Channels(Pair(h, 1), Pair(h, 3), Pair(h, 5), Pair(h, 7))
               [] Len(h) = 6 -> Channels(Pair(h, 1), Pair(h, 3), Pair(h, 5), 255)
               [] Len(h) = 4 -> Channels(Single(h, 1), Single(h, 2), Single(h, 3), Single(h, 4))
               [] Len(h) = 3 -> Channels(Single(h, 1), Single(h, 2), Single(h, 3), 255)
               [] OTHER -> [status |-> "returned", value |-> RGBAWhite]
    ELSE [status |-> "returned", value |-> RGBAWhite]

----------------------------------------------------------------------------
(* _get_font *)

\* self.dramatic_fonts
FontAliases == {"anton", "sixcaps", "impact", "arial_bold", "helvetica_bold", "boldonse"}
DramaticFonts(alias) ==
    CASE alias = "anton" -> "Anton-Regular.ttf"
      [] alias = "sixcaps" -> "SixCaps.ttf"
      [] alias = "impact" -> "Impact"
      [] alias = "arial_bold" -> "Arial Bold"
      [] alias = "helvetica_bold" -> "Helvetica Bold"
      [] alias = "boldonse" -> "Boldonse.ttf"

\* font_file.endswith('.ttf') or font_file.endswith('.otf')
IsFontFileName(name) == name \in {"Anton-Regular.ttf", "SixCaps.ttf", "Boldonse.ttf"}
\* str(self.fonts_dir / font_file)
FontPath(font_file) ==
    CASE font_file = "Anton-Regular.ttf" -> "assets/fonts/Anton-Regular.ttf"
      [] font_file = "SixCaps.ttf" -> "assets/fonts/SixCaps.ttf"
      [] font_file = "Boldonse.ttf" -> "assets/fonts/Boldonse.ttf"
      [] OTHER -> font_file

\* str.lower() on the font ids used here
Lower(name) == CASE name = "ANTON" -> "anton" [] name = "Impact" -> "impact" [] OTHER -> name

FontIds == {"anton", "ANTON", "impact", "comic"}
FontSizes == {0, 120}

\* What ImageFont.truetype can be asked for, and the files of assets/fonts.
FontNames ==
    {"assets/fonts/Anton-Regular.ttf", "Anton-Regular.ttf", "Impact", "anton", "ANTON", "impact",
     "comic", "Arial"}
BundledFiles == {"Anton-Regular.ttf"}

TrueTypeFont(name, size) == [kind |-> "truetype", name |-> name, size |-> size]
DefaultFont == [kind |-> "default", name |-> "", size |-> 0]

\* ImageFont.truetype(name, size) succeeds for a positive size and a name the
\* engine can load.
Loads(name, size, loadable) == size > 0 /\ name \in loadable

\* except Exception: try truetype("Arial") except: load_default()
FontFallback(size, loadable) ==
    IF Loads("Arial", size, loadable) THEN TrueTypeFont("Arial", size) ELSE DefaultFont

GetFont(font_name, font_size, exists, loadable) ==
    LET try(name) ==
            IF Loads(name, font_size, loadable) THEN TrueTypeFont(name, font_size)
            ELSE FontFallback(font_size, loadable)
    IN  IF Lower(font_name) \in FontAliases
        THEN LET font_file == DramaticFonts(Lower(font_name))
             IN  IF IsFontFileName(font_file) /\ font_file \in exists
                 THEN try(FontPath(font_file))
                 ELSE try(font_file)
        ELSE try(font_name)

----------------------------------------------------------------------------
(* The opacity of glow, shadow and background gradient; opacities in hundredths *)

MaxAlpha == 255
Opacities == {-50, 0, 50, 70, 100, 150, 200}
AlphaSites == {"glow", "shadow", "background_gradient"}

\* a * opacity in double arithmetic, truncated toward zero: the exact
\* quotient, or one less when the product is an integer that the rounded
\* opacity makes the result fall short of.
FloatProduct(a, opacity) ==
    LET n == a * opacity
        q == IF n >= 0 THEN n \div 100 ELSE -((-n) \div 100)
    IN  IF n > 0 /\ n % 100 = 0 /\ opacity % 25 # 0 THEN {q, q - 1} ELSE {q}

\* ndarray.astype(np.uint8) of a float: the value when it fits; a value out of
\* range is undefined in C, and builds wrap it modulo 256 or saturate it.
AsUint8(v) ==
    IF v \in 0..MaxAlpha THEN {v} ELSE {v % (MaxAlpha + 1), Max(0, Min(MaxAlpha, v))}

\* ImageDraw's ink of an RGBA tuple: each channel clipped to 0..255
Clip8(v) == Max(0, Min(MaxAlpha, v))

\* The alpha an effect writes for a pixel of alpha a.
ScaledAlpha(site, a, opacity) ==
    IF site = "background_gradient"
    THEN {Clip8(v) : v \in FloatProduct(a, opacity)}
    ELSE UNION {AsUint8(v) : v \in FloatProduct(a, opacity)}

----------------------------------------------------------------------------
(* Position suggestions *)

MaxSuggestSide == 30   \* suggestion backgrounds are MaxSuggestSide or MaxSuggestSide + 6 wide
MaxTileLevels == 2     \* the alpha (or grey) levels a tile of a background takes

GridSize == 3
SuggestMargin == 10
OpaqueBelow == 128

\* int(v) of a float v = num / den: truncation towards zero.
IntTrunc(num, den) == IF num >= 0 THEN num \div den ELSE -((-num) \div den)

\* A background of nine flat tiles: tile[r][c] is the alpha of its pixels when
\* it has an alpha channel, and the grey level of its pixels when it has none.
TileLevels == {(255 * k) \div (MaxTileLevels - 1) : k \in 0..(MaxTileLevels - 1)}
Tilings == [(0..2) \X (0..2) -> TileLevels]
SuggestBackgrounds ==
    {[size |-> <<w, MaxSuggestSide>>, has_alpha |-> a, tile |-> t] :
        w \in {MaxSuggestSide, MaxSuggestSide + 6}, a \in BOOLEAN, t \in Tilings}
LevelAt(background, x, y) ==
    background.tile[<<(3 * y) \div background.size[2], (3 * x) \div background.size[1]>>]

\* int(width * (x_idx + 0.5) / grid_size - text_size[0] / 2), then
\* max(10, min(width - text_size[0] - 10, x_pos))
GridCoord(side, idx, text_side) ==
    Max(SuggestMargin,
        Min(side - text_side - SuggestMargin,
            IntTrunc(side * (2 * idx + 1) - GridSize * text_side, 2 * GridSize)))

\* bg_array[y_pos:min(y_pos + h, height), x_pos:min(x_pos + w, width)]
RegionPixels(background, x_pos, y_pos, text_size) ==
    (x_pos..(Min(x_pos + text_size[1], background.size[1]) - 1))
        \X (y_pos..(Min(y_pos + text_size[2], background.size[2]) - 1))

RECURSIVE SumLevels(_, _)
SumLevels(background, pixels) ==
    IF pixels = {} THEN 0
    ELSE LET p == CHOOSE q \in pixels : TRUE
         IN  LevelAt(background, p[1], p[2]) + SumLevels(background, pixels \ {p})

\* np.mean(...) if region.size > 0 else 0, as the fraction num / den
RegionMean(background, x_pos, y_pos, text_size) ==
    LET region == RegionPixels(background, x_pos, y_pos, text_size)
    IN  IF region = {} THEN [num |-> 0, den |-> 1]
        ELSE [num |-> SumLevels(background, region), den |-> Cardinality(region)]

\* The candidate of a grid cell: its box and 255 - mean as a fraction.
Candidate(background, text_size, x_idx, y_idx) ==
    LET x_pos == GridCoord(background.size[1], x_idx, text_size[1])
        y_pos == GridCoord(background.size[2], y_idx, text_size[2])
        avg == RegionMean(background, x_pos, y_pos, text_size)
    IN  [x |-> x_pos, y |-> y_pos, avg |-> avg,
         score |-> [num |-> 255 * avg.den - avg.num, den |-> avg.den]]

\* for y_idx in range(3): for x_idx in range(3): the nine candidates in order
Candidates(background, text_size) ==
    [k \in 1..(GridSize * GridSize) |->
        Candidate(background, text_size, (k - 1) % GridSize, (k - 1) \div GridSize)]

\* if has_alpha: if avg_alpha < 128: positions.append(...); else: append
Appended(background, c) == ~background.has_alpha \/ c.avg.num < OpaqueBelow * c.avg.den

ScoreLess(a, b) == a.score.num * b.score.den < b.score.num * a.score.den

\* positions.sort(key=score, reverse=True): a stable sort, highest score first
RECURSIVE SortByScore(_)
InsertByScore(sorted, c) ==
    LET before == {i \in 1..Len(sorted) : ~ScoreLess(sorted[i], c)}
        n == Cardinality({i \in 1..Len(sorted) : \A j \in 1..i : j \in before})
    IN  SubSeq(sorted, 1, n) \o <<c>> \o SubSeq(sorted, n + 1, Len(sorted))
SortByScore(positions) ==
    IF positions = <<>> THEN <<>>
    ELSE InsertByScore(SortByScore(SubSeq(positions, 1, Len(positions) - 1)),
                       positions[Len(positions)])

\* _suggest_text_positions(background, text, font, text_size)
SuggestPositions(background, text_size) ==
    LET all == Candidates(background, text_size)
        positions == SelectSeq(all, LAMBDA c : Appended(background, c))
    IN  Prefix(SortByScore(positions), 3)

\* suggest_text_positions: the background is converted to RGBA and the text
\* size is that of textbbox((0, 0), text, font).
SuggestBBoxes ==
    {<<0, 0, 0, 0>>, <<0, 0, 4, 2>>, <<0, 1, 12, 3>>, <<1, 0, MaxSuggestSide - 9, 2>>,
     <<0, 0, MaxSuggestSide + 10, 2>>}
SuggestTextPositions(background, bbox) ==
    SuggestPositions(background, <<TextWidth(bbox), TextHeight(bbox)>>)

----------------------------------------------------------------------------
(* The helpers, each called on its own *)

\* A file that is not there cannot be loaded.
FontWorlds ==
    {w \in (SUBSET BundledFiles) \X (SUBSET FontNames) :
        \A f \in BundledFiles : FontPath(f) \in w[2] => f \in w[1]}
FontCalls ==
    {[op |-> "_get_font", font_name |-> n, font_size |-> z, exists |-> w[1], loadable |-> w[2]] :
        n \in FontIds, z \in FontSizes, w \in FontWorlds}
ColorCalls == {[op |-> "_hex_to_rgba", hex_color |-> c] : c \in ColorStrings}
AlphaCalls ==
    {[op |-> "scale_alpha", site |-> st, alpha |-> a, opacity |-> o] :
        st \in AlphaSites, a \in 0..MaxAlpha, o \in Opacities}

SuggestCalls ==
    {[op |-> "_suggest_text_positions", background |-> b, bbox |-> t] :
        b \in SuggestBackgrounds, t \in SuggestBBoxes}

HelperInit ==
    /\ req \in FontCalls \cup ColorCalls \cup AlphaCalls \cup SuggestCalls
    /\ pc = req.op
    /\ heap = [r \in Refs |-> NoImage]
    /\ canvasRef = "none"
    /\ fgRef = "none"
    /\ metrics = NoMetrics
    /\ layerIdx = 1
    /\ template = NoTemplate
    /\ files = {}
    /\ fault = <<"none", 0>>
    /\ fetches = <<>>
    /\ uploads = {}
    /\ result = [status |-> "none", value |-> ""]
    /\ ServicesIdleInit

HelperFrame ==
    /\ UNCHANGED <<fetches, uploads, fault, req, heap, canvasRef, fgRef, metrics, layerIdx, template, files>>
    /\ ServicesIdle

GetFontCall ==
    /\ pc = "_get_font"
    /\ result' = [status |-> "returned",
                  value |-> GetFont(req.font_name, req.font_size, req.exists, req.loadable)]
    /\ pc' = "returned"
    /\ HelperFrame

HexToRgbaCall ==
    /\ pc = "_hex_to_rgba"
    /\ result' = HexToRgba(req.hex_color)
    /\ pc' = result'.status
    /\ HelperFrame

ScaleAlphaCall ==
    /\ pc = "scale_alpha"
    /\ \E v \in ScaledAlpha(req.site, req.alpha, req.opacity) :
          result' = [status |-> "returned", value |-> v]
    /\ pc' = "returned"
    /\ HelperFrame

SuggestCall ==
    /\ pc = "_suggest_text_positions"
    /\ result' = [status |-> "returned", value |-> SuggestTextPositions(req.background, req.bbox)]
    /\ pc' = "returned"
    /\ HelperFrame

HelperNext == GetFontCall \/ HexToRgbaCall \/ ScaleAlphaCall \/ SuggestCall

HelperSpec == HelperInit /\ [][HelperNext]_vars

----------------------------------------------------------------------------
(* Properties *)

Canvas == heap[canvasRef]

\* add_text has run _apply_text_effects and gone on.
AddTextDrawn ==
    /\ req.op = "add_text"
    /\ pc \in {"add_text_save", "add_text_upload", "returned"} \/ (pc = "raised" /\ result.value = "upload")

\* The canvas holds the text (glyphs in a colour, or the masked gradient) at (x, y).
TextDrawnAt(image, x, y) ==
    \E n \in 1..Len(image.ops) :
        /\ image.ops[n].kind \in {"text", "gradient"}
        /\ image.ops[n].x = x
        /\ image.ops[n].y = y

Composed ==
    /\ req.op = "compose_final_image"
    /\ pc \in {"compose_save", "compose_upload", "returned"} \/ (pc = "raised" /\ result.value = "upload")

\* C2: in the composed image the text stays behind the subject: where the
\* (resized) foreground is fully opaque the output pixel is the foreground
\* pixel, where it is fully transparent the output pixel is the pixel of the
\* background with text.
C2_TextBehindSubject ==
    Composed =>
        \A i \in 1..Len(Canvas.px) :
            /\ heap[fgRef].px[i][4] = 255 => Canvas.px[i] = heap[fgRef].px[i]
            /\ heap[fgRef].px[i][4] = 0 => Canvas.px[i] = heap["background"].px[i]

C2_Witness ==
    /\ Composed
    /\ pc = "returned"
    /\ \E i, j \in 1..Len(Canvas.px) :
          /\ heap[fgRef].px[i][4] = 255
          /\ heap["background"].px[i] # heap[fgRef].px[i]
          /\ Canvas.px[i] = heap[fgRef].px[i]
          /\ heap[fgRef].px[j][4] = 0
          /\ heap["background"].px[j] # heap[fgRef].px[j]
          /\ Canvas.px[j] = heap["background"].px[j]

\* C3: when one effect step of _apply_text_effects meets a rendering failure,
\* the function does not raise and the text has been drawn at the draw origin;
\* add_text goes on to save its canvas.
C3_EffectFailureDegrades ==
    (req.op = "add_text" /\ fault[1] \in EffectKinds) =>
        /\ AddTextDrawn
        /\ TextDrawnAt(Canvas, metrics.adjusted[1], metrics.adjusted[2])

C3_Witness ==
    /\ req.op = "add_text"
    /\ fault[1] = "3d_depth"
    /\ pc = "returned"
    /\ TextDrawnAt(Canvas, metrics.adjusted[1], metrics.adjusted[2])

\* C4: add_multiple_text_layers paints the layers in the order of the list
\* onto one canvas: every draw operation of layer i precedes every draw
\* operation of a layer j > i, and the layers handled so far are the first ones
\* of the list.
C4_LayersInOrder ==
    req.op = "add_multiple_text_layers" /\ canvasRef # "none" =>
        /\ \A m, n \in 1..Len(Canvas.ops) :
              m < n => Canvas.ops[m].layer <= Canvas.ops[n].layer
        /\ \A n \in 1..Len(Canvas.ops) : Canvas.ops[n].layer < layerIdx \/ pc = "raised"
        /\ \A i \in 1..(layerIdx - 1) :
              fault[1] # "draw" => \E n \in 1..Len(Canvas.ops) : Canvas.ops[n].layer = i

\* two different layers drawn at the same origin, the later one on top
C4_Witness ==
    /\ req.op = "add_multiple_text_layers"
    /\ pc = "returned"
    /\ \E m, n \in 1..Len(Canvas.ops) :
          /\ m < n
          /\ Canvas.ops[m].layer = 1 /\ Canvas.ops[n].layer = 2
          /\ Canvas.ops[m].x = Canvas.ops[n].x /\ Canvas.ops[m].y = Canvas.ops[n].y
          /\ Canvas.ops[m].fill # Canvas.ops[n].fill

\* C5: every layer of add_multiple_text_layers is drawn at the origin add_text
\* resolves for the same anchor and text size (vertical factor 0.375).
C5_LayersResolveLikeAddText ==
    (req.op = "add_multiple_text_layers" /\ pc = "layers_loop" /\ layerIdx > 1) =>
        metrics.adjusted =
            AddTextPosition(metrics.pos_x, metrics.pos_y, metrics.text_width, metrics.text_height)

\* C6: the position of add_text's result info is the anchor the caller sent,
\* never the adjusted draw origin.
C6_PositionEchoed ==
    (req.op = "add_text" /\ pc = "returned" /\ req.position.keys = {"x", "y"}) =>
        result.position = <<req.position.val.x, req.position.val.y>>

C6_Witness ==
    /\ req.op = "add_text"
    /\ pc = "returned"
    /\ req.position.keys = {"x", "y"}
    /\ metrics.adjusted # <<req.position.val.x, req.position.val.y>>
    /\ result.position = <<100, 100>>

\* C7: compose_final_image resizes a foreground of another size to exactly the
\* background's size before blending, and the output has the background's size.
C7_ComposeSizes ==
    /\ Composed =>
          /\ heap[fgRef].size = heap["background"].size
          /\ Canvas.size = heap["background"].size
          /\ Len(Canvas.px) = Canvas.size[1] * Canvas.size[2]
          /\ (heap["foreground"].size # heap["background"].size) = (fgRef = "resized")
    /\ (req.op = "compose_final_image" /\ pc = "returned") =>
          \A f \in files : f.image.size = heap["background"].size

C7_Witness ==
    /\ Composed
    /\ pc = "returned"
    /\ heap["foreground"].size # heap["background"].size
    /\ heap["resized"].size = heap["background"].size
    /\ Canvas.size = heap["background"].size

C9_BackgroundUntouched ==
    [][heap["background"] # NoImage => heap'["background"] = heap["background"]]_vars

C9_Witness ==
    /\ req.op \in {"add_text", "add_multiple_text_layers", "compose_final_image"}
    /\ pc \in {"returned", "raised"}
    /\ canvasRef # "none"
    /\ heap["background"] # NoImage
    /\ Canvas # heap["background"]
    /\ heap["background"].ops = <<>>

\* create_template has made its canvas.
TemplateCanvasMade ==
    /\ req.op = "create_template"
    /\ canvasRef = "canvas"

\* C10: the canvas of create_template has the width and height of the template
\* table for each of the seven names, whatever the foreground's size, and is
\* 1080x1080 for any other name.
C10_TemplateCanvasSize ==
    TemplateCanvasMade =>
        LET name == TemplateNamePassed
            size == Canvas.size
        IN  /\ name = "instagram_post" => size = <<1080, 1080>>
            /\ name = "instagram_story" => size = <<1080, 1920>>
            /\ name = "facebook_post" => size = <<1200, 630>>
            /\ name = "twitter_post" => size = <<1600, 900>>
            /\ name = "linkedin_post" => size = <<1200, 627>>
            /\ name = "youtube_thumbnail" => size = <<1280, 720>>
            /\ name = "tiktok_video" => size = <<1080, 1920>>
            /\ name \notin TemplateNames => size = <<1080, 1080>>
            /\ \A f \in files : f.image.size = size

C10_Witness ==
    /\ TemplateCanvasMade
    /\ pc = "returned"
    /\ req.template_name = "youtube_thumbnail"
    /\ req.fg_size = <<1920, 1080>>
    /\ Canvas.size = <<1280, 720>>
    /\ \E f \in files : f.image.size = <<1280, 720>>

\* create_template has computed the scaled foreground size.
TemplateScaled ==
    /\ req.op = "create_template"
    /\ template.width > 0

\* C11: for every foreground size, every template and every padding percent in
\* 0..30, the scaled foreground size of create_template fits the available
\* box: new_width <= avail_width and new_height <= avail_height, and one of the
\* two equals the box's dimension.
C11_TemplateFits ==
    (TemplateScaled /\ PaddingPassed \in 0..30) =>
        /\ template.avail_width = template.width - 2 * template.padding_px
        /\ template.avail_height = template.height - 2 * template.padding_px
        /\ template.new_width <= template.avail_width
        /\ template.new_height <= template.avail_height
        /\ template.new_width = template.avail_width \/ template.new_height = template.avail_height

C11_Witness ==
    /\ TemplateScaled
    /\ pc = "returned"
    /\ PaddingPassed \in 1..30
    /\ req.fg_size = <<1920, 1080>>
    /\ template.new_width = template.avail_width
    /\ template.new_height < template.avail_height
    /\ template.new_height > 0

\* C12: an outline of width n >= 0 draws the text at exactly the
\* (2n+1)^2 - 1 offsets of [-n, n]^2 other than (0, 0), each once (24 for the
\* preset width 2), and the main text at offset (0, 0) comes after all of them.
C12_OutlineOffsets ==
    LET outline == Get(req.effects, "outline", EmptyDict)
        n == Get(outline, "width", PresetOutlineWidth)
        idx == {k \in 1..Len(Canvas.ops) : Canvas.ops[k].kind = "outline"}
        off(k) == <<Canvas.ops[k].x - metrics.adjusted[1], Canvas.ops[k].y - metrics.adjusted[2]>>
    IN  (AddTextDrawn /\ Truthy(outline) /\ fault[1] = "none") =>
            /\ {off(k) : k \in idx} = ((-n..n) \X (-n..n)) \ {<<0, 0>>}
            /\ Cardinality(idx) = (2 * n + 1) * (2 * n + 1) - 1
            /\ n = 2 => Cardinality(idx) = 24
            /\ \E m \in 1..Len(Canvas.ops) :
                  /\ Canvas.ops[m].kind \in {"text", "gradient"}
                  /\ Canvas.ops[m].x = metrics.adjusted[1]
                  /\ Canvas.ops[m].y = metrics.adjusted[2]
                  /\ \A k \in idx : k < m

C12_Witness ==
    /\ AddTextDrawn
    /\ pc = "returned"
    /\ fault[1] = "none"
    /\ "width" \notin Get(req.effects, "outline", EmptyDict).keys
    /\ Cardinality({k \in 1..Len(Canvas.ops) : Canvas.ops[k].kind = "outline"}) = 24
    /\ Canvas.ops[Len(Canvas.ops)].kind = "text"

\* C13: the glow is drawn as steps = min(radius, 20) rings, ring i with the
\* opacity baseOpacity * (1 - i / steps), strictly decreasing in i, and the
\* main text is drawn after them.
C13_GlowRings ==
    LET glow == Get(req.effects, "glow", EmptyDict)
        radius == Get(glow, "radius", PresetGlowRadius)
        base == Get(glow, "opacity", PresetGlowOpacity)
        steps == Min(radius, 20)
        rings == SelectSeq(Canvas.ops, LAMBDA o : o.kind = "glow")
    IN  (AddTextDrawn /\ Truthy(glow) /\ fault[1] = "none") =>
            /\ Len(rings) = steps
            /\ \A i \in 1..Len(rings) : rings[i].opacity * steps = base * (steps - i)
            /\ \A i, j \in 1..Len(rings) : i < j => rings[i].opacity > rings[j].opacity
            /\ Canvas.ops[Len(Canvas.ops)].kind \in {"text", "gradient"}

\* The effect kinds that left a mark on the canvas.
RenderedKinds ==
    {Canvas.ops[n].kind : n \in 1..Len(Canvas.ops)} \ {"text", "paste"}

\* C14: whatever the effects mapping, one call of _apply_text_effects renders
\* one effect kind only: of several kinds the mapping names, only one is drawn.
C14_OneEffectKind ==
    (AddTextDrawn /\ fault[1] = "none") => Cardinality(RenderedKinds) <= 1

\* The number of requests made for a URL.
FetchCount(url) == Cardinality({n \in 1..Len(fetches) : fetches[n] = url})

\* C19: when a remote background or foreground cannot be fetched, the
\* operation ends with an error after exactly one request for that reference
\* (no reference is ever requested twice), and nothing has been rendered, saved
\* or uploaded for the call.
C19_FetchFailureIsFinal ==
    /\ \A url \in {RemoteBackground, RemoteForeground} : FetchCount(url) <= 1
    /\ (pc = "raised" /\ result.value = "fetch") =>
          /\ fetches # <<>>
          /\ fetches[Len(fetches)] \in {req.background_path, req.foreground_path}
          /\ FetchCount(fetches[Len(fetches)]) = 1
          /\ canvasRef = "none"
          /\ \A r \in Refs : heap[r].ops = <<>>
          /\ files = {}
          /\ uploads = {}

C19_Witness ==
    /\ req.op = "compose_final_image"
    /\ pc = "raised"
    /\ result.value = "fetch"
    /\ heap["background"] # NoImage
    /\ fetches = <<RemoteBackground, RemoteForeground>>
    /\ files = {}

\* C20: once add_text or compose_final_image has saved its PNG locally, the
\* call returns the local path; a failed upload does not fail the call.
C20_UploadFailureTolerated ==
    (req.op \in {"add_text", "compose_final_image"} /\ files # {} /\ pc \in {"returned", "raised"}) =>
        /\ pc = "returned"
        /\ result.value \in {f.path : f \in files}

\* C18: a call of add_dramatic_text without a text, or with an empty one, is a
\* hard failure: it never returns, and no image is rendered, saved or uploaded
\* for it.
C18_EmptyTextRejected ==
    (req.op = "add_dramatic_text" /\ Falsy(req.text)) =>
        /\ pc # "returned"
        /\ canvasRef = "none"
        /\ files = {}
        /\ uploads = {}

\* C15: the opacity of a shadow, glow or background gradient is clamped to
\* [0, 1] before use: for every requested opacity and every source alpha a in
\* 0..255 the alpha written is a times the clamped opacity (truncated, up to the
\* rounding of the product), so it lies in 0..a and is never a wrapped value.
C15_OpacityClamped ==
    (req.op = "scale_alpha" /\ pc = "returned") =>
        LET clamped == Max(0, Min(100, req.opacity))
            exact == (req.alpha * clamped) \div 100
        IN  /\ result.value \in 0..req.alpha
            /\ exact - result.value \in {0, 1}

\* C16: _get_font never raises and returns the first candidate that loads, in
\* this order: the alias's bundled file; the font id taken literally, when the
\* alias is absent or its bundled file is missing; "Arial"; the built-in
\* default.  (Stated for the font ids without an alias and those whose alias
\* names a bundled file.)
C16_FontOrder ==
    (req.op = "_get_font" /\ pc = "returned" /\ req.font_name \in {"anton", "ANTON", "comic"}) =>
        LET alias == Lower(req.font_name)
            bundled ==
                /\ alias \in FontAliases
                /\ IsFontFileName(DramaticFonts(alias))
                /\ DramaticFonts(alias) \in req.exists
            first == IF bundled THEN FontPath(DramaticFonts(alias)) ELSE req.font_name
            expected ==
                IF Loads(first, req.font_size, req.loadable) THEN TrueTypeFont(first, req.font_size)
                ELSE IF Loads("Arial", req.font_size, req.loadable) THEN TrueTypeFont("Arial", req.font_size)
                ELSE DefaultFont
        IN  /\ result.status = "returned"
            /\ result.value = expected

\* A colour string the claim calls invalid: no leading '#', or after the '#' a
\* length other than 3, 4, 6 or 8, or a character that is no hexadecimal digit.
InvalidColor(c) ==
    \/ c = <<>>
    \/ c[1] # "#"
    \/ Len(Tail(c)) \notin {3, 4, 6, 8}
    \/ \E i \in 2..Len(c) : ~IsHexDigit(c[i])

\* C17: _hex_to_rgba returns opaque white for every invalid colour string and
\* does not raise.
C17_InvalidHexIsWhite ==
    (req.op = "_hex_to_rgba" /\ pc \in {"returned", "raised"} /\ InvalidColor(req.hex_color)) =>
        /\ result.status = "returned"
        /\ result.value = RGBAWhite

\* The draw operations of a kind on the canvas, in drawing order.
OpsOfKind(kind) == SelectSeq(Canvas.ops, LAMBDA o : o.kind = kind)

\* C23: a 3D depth of n >= 1 layers draws n copies in the order i = n, ..., 1,
\* copy i displaced by (int(cos(angle) * distance * i), int(sin(angle) *
\* distance * i)) and coloured colors[min(int(i * len(colors) / n),
\* len(colors) - 1)], an index inside the list; the undisplaced main text
\* comes after all copies.  The displacement is stated for the angles 90 and
\* 45 degrees, for which cos and sin are 0 and 1, or both sqrt(1/2).
C23_DepthOrder ==
    LET d == Get(req.effects, "3d_depth", EmptyDict)
        n == Get(d, "layers", PresetDepthLayers)
        angle == Get(d, "angle", PresetDepthAngle)
        distance == Get(d, "distance", PresetDepthDistance)
        copies == OpsOfKind("depth")
        colors == PresetDepthColors
    IN  (AddTextDrawn /\ Truthy(d) /\ fault[1] = "none") =>
            /\ Len(copies) = n
            /\ \A k \in 1..Len(copies) :
                  LET i == n - k + 1
                      m == distance * i
                      dx == copies[k].x - metrics.adjusted[1]
                      dy == copies[k].y - metrics.adjusted[2]
                      idx == Min((i * Len(colors)) \div n, Len(colors) - 1)
                  IN  /\ angle = 90 => dx = 0 /\ dy = m
                      /\ angle = 45 => /\ dx >= 0 /\ 2 * dx * dx <= m * m /\ m * m < 2 * (dx + 1) * (dx + 1)
                                       /\ dy = dx
                      /\ idx \in 0..(Len(colors) - 1)
                      /\ copies[k].fill = colors[idx + 1]
            /\ \E t \in 1..Len(Canvas.ops) :
                  /\ Canvas.ops[t].kind \in {"text", "gradient"}
                  /\ Canvas.ops[t].x = metrics.adjusted[1]
                  /\ Canvas.ops[t].y = metrics.adjusted[2]
                  /\ \A k \in 1..Len(Canvas.ops) : Canvas.ops[k].kind = "depth" => k < t

C23_Witness ==
    /\ AddTextDrawn
    /\ pc = "returned"
    /\ fault[1] = "none"
    /\ Get(Get(req.effects, "3d_depth", EmptyDict), "layers", 0) = 2
    /\ Len(OpsOfKind("depth")) = 2
    /\ OpsOfKind("depth")[1].x = metrics.adjusted[1] + 2
    /\ OpsOfKind("depth")[2].x = metrics.adjusted[1] + 1
    /\ OpsOfKind("depth")[1].fill # OpsOfKind("depth")[2].fill
    /\ Canvas.ops[Len(Canvas.ops)].kind = "text"

\* C24: when the rendering step of an effect fails while plain text in the
\* base colour can be drawn, the text is drawn in the caller's base colour
\* (or as the gradient another, working step produces), whatever the effect
\* kind; the white of the last resort is not used.
C24_FallbackKeepsBaseColour ==
    (AddTextDrawn /\ fault[1] \in EffectKinds /\ req.color = "#FF0000") =>
        /\ TextDrawnAt(Canvas, metrics.adjusted[1], metrics.adjusted[2])
        /\ \A n \in 1..Len(Canvas.ops) :
              Canvas.ops[n].kind = "text" => Canvas.ops[n].fill \in {req.color, DefaultInk}

\* C28: the add-3d-text route called with an effect type and no effect
\* settings renders the named effect with its preset defaults, not plain text.
C28_PresetDefaultsRendered ==
    LET kind == CASE req.effect_type = "3d_depth" -> "depth" [] OTHER -> req.effect_type
    IN  (/\ req.op = "add_3d_text"
         /\ req.effect_type \in {"3d_depth", "shadow", "glow", "outline"}
         /\ ~Truthy(req.effect_settings)
         /\ pc = "returned"
         /\ fault[1] = "none") =>
            Len(OpsOfKind(kind)) > 0

\* C29: for every foreground size, also of an extreme aspect ratio, every
\* template and every padding percent in 0..30, the scaled foreground size of
\* create_template has new_width >= 1 and new_height >= 1.
C29_ScaledSizePositive ==
    (TemplateScaled /\ PaddingPassed \in 0..30) =>
        /\ template.new_width >= 1
        /\ template.new_height >= 1

----------------------------------------------------------------------------
(* The text gradient, pixel by pixel *)

CanvasPixels(imsize) == (0..(imsize[1] - 1)) \X (0..(imsize[2] - 1))

\* text_bbox = draw.textbbox(position, text, font=font): the glyph box of the
\* text drawn at position, on the canvas.
TextBBoxAt(position, bbox) ==
    <<position[1] + bbox[1], position[2] + bbox[2], position[1] + bbox[3], position[2] + bbox[4]>>

\* mask_draw.text(position, text, fill=(255, 255, 255, 255)): the pixels of the
\* mask with alpha 255.  The glyph box is the tight box of the ink; the text
\* is taken to ink all of it.
MaskPixels(imsize, position, bbox) ==
    LET b == TextBBoxAt(position, bbox)
    IN  {p \in CanvasPixels(imsize) : b[1] <= p[1] /\ p[1] < b[3] /\ b[2] <= p[2] /\ p[2] < b[4]}

\* gradient_img.putpixel((position[0] + i, position[1] + j), (r, g, b, a)) for
\* i in range(text_width), j in range(text_height), inside the image: the
\* pixels given a gradient colour; the others stay (0, 0, 0, 0).
GradientPixels(imsize, position, bbox) ==
    {p \in CanvasPixels(imsize) :
        /\ position[1] <= p[1] /\ p[1] < position[1] + TextWidth(bbox)
        /\ position[2] <= p[2] /\ p[2] < position[2] + TextHeight(bbox)}

\* gradient_array[:, :, 3] = np.minimum(gradient alpha, mask alpha);
\* draw.im.paste(gradient, (0, 0), mask): what each canvas pixel becomes.
TextGradientPaste(imsize, position, bbox) ==
    [p \in CanvasPixels(imsize) |->
        IF p \notin MaskPixels(imsize, position, bbox) THEN "kept"
        ELSE IF p \in GradientPixels(imsize, position, bbox) THEN "gradient"
        ELSE "transparent"]

\* C25: with a text gradient used as mask, every canvas pixel the rendered
\* text inks receives a gradient colour with non-zero alpha, whatever the draw
\* origin and the glyph box (also one whose top-left is offset from the
\* origin), and no pixel outside the glyphs is painted.
C25_GradientCoversGlyphs ==
    (AddTextDrawn /\ Len(OpsOfKind("gradient")) > 0) =>
        LET paint == TextGradientPaste(Canvas.size, metrics.adjusted, req.bbox)
            ink == MaskPixels(Canvas.size, metrics.adjusted, req.bbox)
        IN  \A p \in CanvasPixels(Canvas.size) :
                IF p \in ink THEN paint[p] = "gradient" ELSE paint[p] = "kept"

----------------------------------------------------------------------------
(* Position suggestions: properties *)

Suggested == pc = "returned" /\ req.op = "_suggest_text_positions"
SuggestTextSize == <<TextWidth(req.bbox), TextHeight(req.bbox)>>

\* C21: whatever the background and the text size, the call returns three of
\* the nine candidates of the grid, in non-increasing score order, and no
\* candidate left out scores higher than a returned one.
C21_ThreeBestOfNine ==
    Suggested =>
        LET all == Candidates(req.background, SuggestTextSize)
            got == result.value
        IN  /\ Len(got) = 3
            /\ \A i \in 1..(Len(got) - 1) : ~ScoreLess(got[i], got[i + 1])
            /\ \E pick \in [1..3 -> 1..Len(all)] :
                  /\ \A i, j \in 1..3 : i # j => pick[i] # pick[j]
                  /\ \A i \in 1..3 : got[i] = all[pick[i]]
                  /\ \A k \in 1..Len(all) :
                        (\A i \in 1..3 : pick[i] # k) => ~ScoreLess(got[3], all[k])

\* C26: every candidate box lies at least 10 px inside the image on each
\* side, for every image size and text size.
C26_CandidateInsideMargin ==
    Suggested =>
        LET all == Candidates(req.background, SuggestTextSize)
            W == req.background.size[1]
            H == req.background.size[2]
        IN  \A k \in 1..Len(all) :
                /\ SuggestMargin <= all[k].x
                /\ all[k].x + SuggestTextSize[1] <= W - SuggestMargin
                /\ SuggestMargin <= all[k].y
                /\ all[k].y + SuggestTextSize[2] <= H - SuggestMargin

\* C27: a returned position, passed to add_text as its position with the
\* same text and font, makes add_text draw the text's box over the region
\* that was scored for the suggestion.
C27_SuggestionIsAnchor ==
    Suggested =>
        \A i \in 1..Len(result.value) :
            LET p == result.value[i]
                w == SuggestTextSize[1]
                h == SuggestTextSize[2]
            IN  TextBBoxAt(AddTextPosition(p.x, p.y, w, h), req.bbox)
                    = <<p.x, p.y, p.x + w, p.y + h>>

----------------------------------------------------------------------------
(* Calls in flight together: the result files *)

MaxClock == 2          \* the clock seconds 0..MaxClock
MaxCalls == 2          \* calls in flight together

CallIds == 1..MaxCalls
SavingOps == {"add_text", "add_multiple_text_layers", "compose_final_image"}
BackgroundPaths == {"uploads/a.png", "uploads/b.jpg"}

\* os.path.splitext(os.path.basename(background_path))[0]
BaseNameWithoutExt(path) ==
    CASE path = "uploads/a.png" -> "a" [] path = "uploads/b.jpg" -> "b" [] OTHER -> path

\* processed_dir / f"..._{int(time.time())}.png": the name as its parts
TextPath(op, background_path, second) ==
    CASE op = "add_text" -> <<BaseNameWithoutExt(background_path), "_text_", second>>
      [] op = "add_multiple_text_layers" -> <<"", "multilayer_text_", second>>
      [] OTHER -> <<"", "composed_", second>>

NoPath == <<>>
StartedCalls ==
    [CallIds -> {[op |-> o, background_path |-> b, at |-> "start", path |-> NoPath] :
                    o \in SavingOps, b \in BackgroundPaths}]

\* The composition service between calls.
CompositionIdleInit ==
    /\ req = [op |-> "none"]
    /\ pc = "none"
    /\ heap = [r \in Refs |-> NoImage]
    /\ canvasRef = "none"
    /\ fgRef = "none"
    /\ metrics = NoMetrics
    /\ layerIdx = 1
    /\ template = NoTemplate
    /\ fault = <<"none", 0>>
    /\ fetches = <<>>
    /\ uploads = {}
    /\ result = NoResult
CompositionIdle ==
    UNCHANGED <<pc, req, heap, canvasRef, fgRef, metrics, layerIdx, template, fault, fetches,
                uploads, result>>
CleanupIdle == UNCHANGED <<files_to_cleanup, on_disk, task, files_to_remove>>

ConcurrentInit ==
    /\ CompositionIdleInit
    /\ files = {}
    /\ clock = 0
    /\ calls \in StartedCalls
    /\ files_to_cleanup = NothingTracked
    /\ on_disk = {}
    /\ task = "none"
    /\ files_to_remove = {}

\* Loading, copying and drawing: on images of the call's own, with awaits
\* (the fetch of a remote image) at which another call may run.
CallRender(c) ==
    /\ calls[c].at = "start"
    /\ calls' = [calls EXCEPT ![c].at = "drawn"]
    /\ UNCHANGED <<files, clock>>
    /\ CompositionIdle /\ CleanupIdle

\* text_path = processed_dir / f"..._{int(time.time())}.png";
\* canvas.save(text_path, "PNG"): a file of that name is replaced.
CallSave(c) ==
    /\ calls[c].at = "drawn"
    /\ LET path == TextPath(calls[c].op, calls[c].background_path, clock)
       IN  /\ calls' = [calls EXCEPT ![c].at = "saved", ![c].path = path]
           /\ files' = {f \in files : f.path # path} \cup {[path |-> path, image |-> c]}
    /\ UNCHANGED clock
    /\ CompositionIdle /\ CleanupIdle

\* await self.cloudinary.upload_image(str(text_path)); return
CallUpload(c) ==
    /\ calls[c].at = "saved"
    /\ calls' = [calls EXCEPT ![c].at = "returned"]
    /\ UNCHANGED <<files, clock>>
    /\ CompositionIdle /\ CleanupIdle

\* A second passes.
ClockSecond ==
    /\ clock < MaxClock
    /\ clock' = clock + 1
    /\ UNCHANGED <<files, calls>>
    /\ CompositionIdle /\ CleanupIdle

ConcurrentNext ==
    \/ \E c \in CallIds : CallRender(c)
    \/ \E c \in CallIds : CallSave(c)
    \/ \E c \in CallIds : CallUpload(c)
    \/ ClockSecond

ConcurrentSpec == ConcurrentInit /\ [][ConcurrentNext]_vars

\* C22: whenever calls of add_text, add_multiple_text_layers and
\* compose_final_image run together or end in the same clock second, the
\* file a call has saved, and whose path it returns, holds that call's own
\* image: no other call writes it.
C22_ResultFileIsOwn ==
    \A c \in CallIds :
        calls[c].at \in {"saved", "returned"} =>
            [path |-> calls[c].path, image |-> c] \in files

----------------------------------------------------------------------------
(* ImageCleanupService (src/src/utils/cleanup.py) under the application's  *)
(* lifespan (src/main.py).  Times are kept relative to the present:        *)
(* files_to_cleanup[p] is expiry_time - time.time(), so that a behaviour   *)
(* can go on for ever in finitely many states; a tick of time lowers every *)
(* entry by one.                                                           *)

cleanup_delay == 2     \* ImageCleanupService(cleanup_delay), in ticks
MaxOverdue == 1        \* an expiry more than MaxOverdue ticks past counts as MaxOverdue past

CleanupPaths == {"uploads/processed/a.png", "uploads/public/b.png"}
Tracked == DOMAIN files_to_cleanup

\* if current_time >= expiry_time
ExpiredEarly(expiry_time) == 0 >= expiry_time - 1
Expired(expiry_time) == 0 >= expiry_time

CleanupInit ==
    /\ CompositionIdleInit
    /\ files = {}
    /\ clock = 0
    /\ calls = NoCalls
    /\ files_to_cleanup = NothingTracked
    /\ on_disk \in SUBSET CleanupPaths
    /\ task = "none"
    /\ files_to_remove = {}

CleanupFrame == CompositionIdle /\ UNCHANGED <<files, clock, calls>>

\* lifespan, up to its yield: asyncio.create_task(cleanup_task()), then
\* cleanup_all_temp_files(), which removes every file of the upload directories.
Startup ==
    /\ task = "none"
    /\ task' = "running"
    /\ on_disk' = {}
    /\ UNCHANGED <<files_to_cleanup, files_to_remove>>
    /\ CleanupFrame

\* lifespan, after its yield: cleanup_task.cancel()
Shutdown ==
    /\ task = "running"
    /\ task' = "cancelled"
    /\ UNCHANGED <<files_to_cleanup, on_disk, files_to_remove>>
    /\ CleanupFrame

\* A request handler saves a file under the upload directories.
SaveFile(file_path) ==
    /\ task = "running"
    /\ file_path \notin on_disk
    /\ on_disk' = on_disk \cup {file_path}
    /\ UNCHANGED <<files_to_cleanup, task, files_to_remove>>
    /\ CleanupFrame

\* self.files_to_cleanup[file_path] = time.time() + self.cleanup_delay
schedule_cleanup(file_path) ==
    /\ task = "running"
    /\ files_to_cleanup' =
          [p \in Tracked \cup {file_path} |->
              IF p = file_path THEN cleanup_delay ELSE files_to_cleanup[p]]
    /\ UNCHANGED <<on_disk, task, files_to_remove>>
    /\ CleanupFrame

\* One pass of cleanup_task's loop, which has no await inside: every entry
\* with current_time >= expiry_time is removed from the disk, unless
\* os.remove raises, and from the tracking, whether or not it raised.
cleanup_task ==
    /\ task = "running"
    /\ LET expired == {p \in Tracked : Expired(files_to_cleanup[p])}
       IN  /\ files_to_remove' = expired
           /\ \E failed \in SUBSET (expired \cap on_disk) :
                 on_disk' = on_disk \ (expired \ failed)
           /\ files_to_cleanup' = [p \in Tracked \ expired |-> files_to_cleanup[p]]
    /\ UNCHANGED task
    /\ CleanupFrame

\* Time passes by one tick.
Tick ==
    /\ files_to_cleanup' = [p \in Tracked |-> Max(files_to_cleanup[p] - 1, -MaxOverdue)]
    /\ UNCHANGED <<on_disk, task, files_to_remove>>
    /\ CleanupFrame

CleanupNext ==
    \/ Startup
    \/ Shutdown
    \/ \E file_path \in CleanupPaths : SaveFile(file_path)
    \/ \E file_path \in CleanupPaths : schedule_cleanup(file_path)
    \/ cleanup_task
    \/ Tick

CleanupSpec == CleanupInit /\ [][CleanupNext]_vars

\* The event loop resumes the sleeping task while it is not cancelled, and
\* time passes.
CleanupFairSpec == CleanupSpec /\ WF_vars(cleanup_task) /\ WF_vars(Tick)

\* No tracked file leaves the disk before its recorded expiry.
NotDeletedBeforeExpiry ==
    [][\A p \in Tracked : (p \in on_disk /\ p \notin on_disk') => files_to_cleanup[p] <= 0]_vars

\* A schedule call records the expiry cleanup_delay from now, replacing an
\* earlier one.
LatestScheduleWins ==
    [][\A p \in CleanupPaths : schedule_cleanup(p) => files_to_cleanup'[p] = cleanup_delay]_vars

\* A sweep untracks every file whose expiry has passed.
SweepUntracksExpired ==
    [][cleanup_task =>
          \A p \in Tracked : files_to_cleanup[p] <= 0 => p \notin DOMAIN files_to_cleanup']_vars

\* While the task is not cancelled, a tracked file is eventually untracked.
EventuallyUntracked ==
    \A p \in CleanupPaths :
        <>(task = "cancelled") \/ ((p \in Tracked) ~> (p \notin Tracked))

\* The same, for a file that does not keep being scheduled again.
EventuallyUntrackedUnlessRescheduled ==
    \A p \in CleanupPaths :
        \/ <>(task = "cancelled")
        \/ []<><<schedule_cleanup(p)>>_vars
        \/ ((p \in Tracked) ~> (p \notin Tracked))

\* C30 as claimed: under any interleaving of schedule calls and sweeps, no
\* tracked file is deleted before its recorded expiry (cleanup_delay after
\* the latest schedule call), a sweep untracks every tracked file whose
\* expiry has passed, and with the sweep running fairly every scheduled file
\* is eventually untracked.
C30_AsClaimed ==
    /\ NotDeletedBeforeExpiry
    /\ LatestScheduleWins
    /\ SweepUntracksExpired
    /\ EventuallyUntracked

\* C30, amended: the same, but a scheduled file is eventually untracked only
\* if it does not keep being scheduled again: a file scheduled again within
\* cleanup_delay of each previous call stays tracked for ever.
C30_ExpiryRespected ==
    /\ NotDeletedBeforeExpiry
    /\ LatestScheduleWins
    /\ SweepUntracksExpired
    /\ EventuallyUntrackedUnlessRescheduled

\* A sweep has deleted and untracked an expired file, while another file,
\* not yet expired, is still tracked and on the disk.
C30_Witness ==
    /\ task = "running"
    /\ \E p \in files_to_remove :
          /\ p \notin Tracked
          /\ p \notin on_disk
          /\ \E q \in Tracked \cap on_disk : q # p /\ files_to_cleanup[q] > 0

====
